---- MODULE Spec2Model ----
(***************************************************************************)
(* A model of next-ai-draw-io's tool-call orchestration and session sync:  *)
(*   - the diagram tool handlers (display_diagram, edit_diagram,           *)
(*     append_diagram) of useDiagramToolHandlers,                          *)
(*   - the embedded MCP HTTP server's session store, and                   *)
(*   - the page it serves (poll / pushState / message listener) together   *)
(*     with the embedded draw.io renderer it talks to.                     *)
(*                                                                         *)
(* Text is modelled as sequences of tokens. A fragment token is one of     *)
(*   "open"   the start of a cell element, not yet closed                  *)
(*   "close"  the closing of a cell element ("/>" or "</mxCell>")          *)
(*   "ws"     whitespace                                                   *)
(*   "root"   a reserved root cell, <mxCell id="1" parent="0"/>: it starts *)
(*             with a root-cell marker and ends with a closing             *)
(***************************************************************************)
EXTENDS Integers, Sequences, FiniteSets, TLC

\* ------------------------------------------------------------------ bounds
MaxFragLen == 2
MaxPartialLen == 4
MaxIds == 2
MaxOps == 2
TailTokens == 1

Token == {"open", "close", "ws", "root"}
Fragments == UNION {[1..n -> Token] : n \in 1..MaxFragLen}
ToolCallIds == 1..MaxIds
CellIds == {"2", "3"}

VARIABLES
    \* tool handlers (useDiagramToolHandlers)
    partialXml,             \* partialXmlRef.current
    chartXML,               \* chartXMLRef.current, kept by the caller
    validationRetryCount,   \* validationRetryCountRef.current, absent read as 0
    validationEnabled,      \* enableVlmValidation && captureValidationPng && validateDiagram
    last,                   \* what the last handler call did (observation record)
    streak                  \* consecutive validation-feedback error outputs

toolVars == <<partialXml, chartXML, validationRetryCount, validationEnabled, last, streak>>

\* ------------------------------------------------------------ text helpers
RECURSIVE TrimStart(_)
TrimStart(s) == IF s # <<>> /\ Head(s) = "ws" THEN TrimStart(Tail(s)) ELSE s

RECURSIVE TrimEnd(_)
TrimEnd(s) ==
    IF s # <<>> /\ s[Len(s)] = "ws" THEN TrimEnd(SubSeq(s, 1, Len(s) - 1)) ELSE s

Trim(s) == TrimEnd(TrimStart(s))

\* s.slice(-n)
SliceLastMutant(s, n) == IF Len(s) <= n THEN s ELSE SubSeq(s, 1, n)
SliceLast(s, n) == IF Len(s) <= n THEN s ELSE SubSeq(s, Len(s) - n + 1, Len(s))

\* @/lib/utils isMxCellXmlComplete: the last opened cell element is closed
IsMxCellXmlComplete(xml) ==
    LET t == Trim(xml) IN t # <<>> /\ t[Len(t)] \in {"close", "root"}

\* @/lib/utils wrapWithMxFile: the container markup around the fragment
WrapWithMxFile(xml) == <<"mxfile">> \o xml \o <<"/mxfile">>

\* handleAppendDiagram: the trimmed fragment starts with a wrapper or root marker
IsFreshStartMutant(xml) == xml # <<>> /\ Head(xml) = "root"
IsFreshStart(xml) ==
    LET trimmed == Trim(xml) IN trimmed # <<>> /\ Head(trimmed) = "root"

MAX_VALIDATION_RETRIES == 3

\* What one handler call did: its input (the xml, or the base document and the
\* operations), whether capture or validation threw, the tool output it added
\* (state, kind, the text it quoted, the failures it listed), whether it called
\* onDisplayChart (and with which document) and onExport, and the validation
\* state it reported last (with which attempt; validating: the attempt it
\* reported with the `validating` state, 0 when it did not report it), after
\* which other states (reported), for which
\* answer of which backend (validated: validateDiagram returned a result).
\* For a request to the validation endpoint: the VALIDATION_TIMEOUT it read
\* (env) and the timeout it put on the model call.
DEFAULT_VALID_RESULT == [valid |-> TRUE, issues |-> <<>>, suggestions |-> <<>>]

NoCall ==
    [tool |-> "none", toolCallId |-> 0, state |-> "none", kind |-> "none",
     displayed |-> FALSE, handed |-> <<>>, exported |-> FALSE,
     valState |-> "none", attempt |-> 0, quoted |-> <<>>, listed |-> <<>>,
     failed |-> <<>>, input |-> <<>>, operations |-> <<>>, threw |-> FALSE,
     reported |-> <<>>, validated |-> FALSE, result |-> DEFAULT_VALID_RESULT,
     backend |-> "none", env |-> [set |-> FALSE, text |-> <<>>], timeout |-> 0,
     config |-> [envConfig |-> "unset", file |-> "missing", providers |-> <<>>,
                 AI_MODEL |-> "", AI_PROVIDER |-> ""],
     models |-> <<>>, outputs |-> <<>>, validating |-> 0]

\* ------------------------------------------------- server model config
\* The configuration a process finds: AI_MODELS_CONFIG (unset, text that
\* does not parse to the schema, or a valid configuration), the
\* ai-models.json file (missing, invalid or valid), the providers the valid
\* one of them lists, and the legacy variables AI_MODEL and AI_PROVIDER
\* ("" when unset).  A provider is its provider name, its models and its
\* default flag (absent and false alike); name, label and key variables are
\* copied to the entries unread and are left out.
loadRawServerModelsConfig(config) ==
    IF config.envConfig # "unset"
    THEN IF config.envConfig = "valid"
         THEN [loaded |-> TRUE, providers |-> config.providers]
         ELSE [loaded |-> FALSE, providers |-> <<>>]
    ELSE IF config.file = "valid"
         THEN [loaded |-> TRUE, providers |-> config.providers]
         ELSE [loaded |-> FALSE, providers |-> <<>>]

loadFlattenedServerModels(config) ==
    LET cfg == loadRawServerModelsConfig(config)
        defaultProvider == config.AI_PROVIDER
        defaultModelId == config.AI_MODEL
        Entry(p, modelId) ==
            [modelId |-> modelId, provider |-> p.provider,
             isDefault |->
                \/ p.default /\ modelId = p.models[1]
                \/ /\ defaultModelId # ""
                   /\ modelId = defaultModelId
                   /\ (defaultProvider = "" \/ defaultProvider = p.provider)]
        RECURSIVE Flatten(_)
        Flatten(providers) ==
            IF providers = <<>> THEN <<>>
            ELSE LET p == Head(providers)
                 IN  [i \in 1..Len(p.models) |-> Entry(p, p.models[i])]
                        \o Flatten(Tail(providers))
    IN  IF ~cfg.loaded THEN <<>> ELSE Flatten(cfg.providers)

LoadModels(config) ==
    /\ last' = [NoCall EXCEPT !.tool = "loadFlattenedServerModels",
                              !.config = config,
                              !.models = loadFlattenedServerModels(config)]
    /\ UNCHANGED <<partialXml, chartXML, validationRetryCount, validationEnabled,
                   streak>>

\* ---------------------------------------------- formatValidationFeedback
\* A text is the sequence of its lines (the array that join("\n") glues
\* together); the empty string is the one empty line, <<"">>.

\* a line per issue, a line per suggestion
IssueLines(issues) ==
    [k \in 1..Len(issues) |->
        "  - [" \o issues[k].type \o "] " \o issues[k].description]
SuggestionLines(suggestions) ==
    [k \in 1..Len(suggestions) |-> "  - " \o suggestions[k]]

\* one group of the text, if it has items: its title, their lines, a blank line
Section(title, lines) ==
    IF Len(lines) > 0 THEN <<title>> \o lines \o <<"">> ELSE <<>>

formatValidationFeedbackEmptyMutant(result) ==
    IF Len(result.issues) = 0 THEN <<"">>
    ELSE <<"DIAGRAM VISUAL VALIDATION FAILED", "">>
         \o Section("Critical Issues (must fix):",
                    IssueLines(SelectSeq(result.issues,
                                         LAMBDA i : i.severity = "critical")))
         \o Section("Warnings:",
                    IssueLines(SelectSeq(result.issues,
                                         LAMBDA i : i.severity = "warning")))
         \o Section("Suggestions to fix:", SuggestionLines(result.suggestions))
         \o <<"Please regenerate the diagram with corrected layout to fix these visual issues.">>

formatValidationFeedbackUngroupedMutant(result) ==
    IF result.valid /\ Len(result.issues) = 0 THEN <<"">>
    ELSE <<"DIAGRAM VISUAL VALIDATION FAILED", "">>
         \o Section("Critical Issues (must fix):", IssueLines(result.issues))
         \o Section("Suggestions to fix:", SuggestionLines(result.suggestions))
         \o <<"Please regenerate the diagram with corrected layout to fix these visual issues.">>

formatValidationFeedback(result) ==
    IF result.valid /\ Len(result.issues) = 0 THEN <<"">>
    ELSE <<"DIAGRAM VISUAL VALIDATION FAILED", "">>
         \o Section("Critical Issues (must fix):",
                    IssueLines(SelectSeq(result.issues,
                                         LAMBDA i : i.severity = "critical")))
         \o Section("Warnings:",
                    IssueLines(SelectSeq(result.issues,
                                         LAMBDA i : i.severity = "warning")))
         \o Section("Suggestions to fix:", SuggestionLines(result.suggestions))
         \o <<"Please regenerate the diagram with corrected layout to fix these visual issues.">>

\* formatValidationFeedback(result), called on its own
FormatFeedback(result) ==
    /\ last' = [NoCall EXCEPT !.tool = "formatValidationFeedback",
                              !.result = result,
                              !.quoted = formatValidationFeedback(result)]
    /\ UNCHANGED <<partialXml, chartXML, validationRetryCount, validationEnabled,
                   streak>>

\* ------------------------------------------------------- display_diagram
\* The validation model's answer: the call threw (stream error, timeout), or
\* an object of the schema, whose verdict and issues the model sets freely.
Verdicts ==
    {[threw |-> TRUE, valid |-> FALSE, issues |-> <<>>, suggestions |-> <<>>]} \cup
    {[threw |-> FALSE, valid |-> v, issues |-> i, suggestions |-> <<>>] :
        v \in BOOLEAN,
        i \in LET warning == [type |-> "text", severity |-> "warning",
                              description |-> "label cut off"]
                  critical == [type |-> "overlap", severity |-> "critical",
                               description |-> "boxes overlap"]
              IN {<<>>, <<warning>>, <<critical>>, <<warning, critical>>}}
\* captureValidationPng: it throws, returns null, or returns a PNG data URL
Captures == {"throws", "null", "png"}

\* The server behind POST /api/validate-diagram: ENABLE_VLM_VALIDATION is
\* "false", or getValidationModel throws, or a model is configured.
Backends == {"disabled", "noModel", "model"}

\* POST /api/validate-diagram as validateDiagram sees it: the object streamed
\* back, or a rejection (threw) for a 400 answer or a failed model call.
ValidatePostMutant(backend, imageData, answer) ==
    IF imageData # "png"
    THEN [threw |-> TRUE, valid |-> FALSE, issues |-> <<>>, suggestions |-> <<>>]
    ELSE answer
ValidatePost(backend, imageData, answer) ==
    IF backend = "disabled"
    THEN [threw |-> FALSE] @@ DEFAULT_VALID_RESULT
    ELSE IF imageData # "png"
    THEN [threw |-> TRUE, valid |-> FALSE, issues |-> <<>>, suggestions |-> <<>>]
    ELSE IF backend = "noModel"
    THEN [threw |-> FALSE] @@ DEFAULT_VALID_RESULT
    ELSE answer

\* ------------------------------------------------- VALIDATION_TIMEOUT
\* An environment value is unset or a text, a sequence of characters.  A
\* JavaScript number is NaN or an integer.

\* parseInt(text, 10): leading white space is skipped, then an optional
\* sign, then digits are read up to the first other character; NaN when
\* there is no digit to read
parseInt(text) ==
    LET RECURSIVE SkipSpaces(_), ParseDigits(_, _)
        SkipSpaces(t) ==
            IF t # <<>> /\ Head(t) = " " THEN SkipSpaces(Tail(t)) ELSE t
        DigitValue(c) == IF c = "0" THEN 0 ELSE IF c = "1" THEN 1 ELSE 2
        ParseDigits(t, acc) ==
            IF t # <<>> /\ Head(t) \in {"0", "1", "2"}
            THEN ParseDigits(Tail(t), 10 * acc + DigitValue(Head(t)))
            ELSE acc
        trimmed == SkipSpaces(text)
        negative == trimmed # <<>> /\ Head(trimmed) = "-"
        digits == IF negative THEN Tail(trimmed) ELSE trimmed
    IN IF digits = <<>> \/ Head(digits) \notin {"0", "1", "2"}
       THEN [nan |-> TRUE, value |-> 0]
       ELSE [nan |-> FALSE,
             value |-> IF negative THEN 0 - ParseDigits(digits, 0)
                       ELSE ParseDigits(digits, 0)]

\* Math.max(1000, parseInt(process.env.VALIDATION_TIMEOUT || "10000", 10)) || 10000
\* Math.max of NaN is NaN; NaN and 0 are falsy
ValidationTimeoutMutant(env) ==
    LET n == parseInt(IF ~env.set \/ env.text = <<>>
                      THEN <<"1", "0", "0", "0", "0">> ELSE env.text)
    IN IF n.nan \/ n.value = 0 THEN 10000 ELSE n.value
ValidationTimeout(env) ==
    LET n == parseInt(IF ~env.set \/ env.text = <<>>
                      THEN <<"1", "0", "0", "0", "0">> ELSE env.text)
        max == IF n.nan THEN n
               ELSE [nan |-> FALSE, value |-> IF n.value > 1000 THEN n.value ELSE 1000]
    IN IF max.nan \/ max.value = 0 THEN 10000 ELSE max.value

\* POST /api/validate-diagram with a validation model configured, up to the
\* model call
PostValidate(env) ==
    /\ last' = [NoCall EXCEPT !.tool = "POST /api/validate-diagram",
                              !.env = env, !.timeout = ValidationTimeout(env)]
    /\ UNCHANGED <<partialXml, chartXML, validationRetryCount, validationEnabled,
                   streak>>

\* the states handed to onValidationStateChange during one cycle, in order
ReportedMutant(cap, valState) ==
    <<"capturing", valState>> \o (IF cap = "png" THEN <<"validating">> ELSE <<>>)
Reported(cap, valState) ==
    <<"capturing">> \o (IF cap = "png" THEN <<"validating">> ELSE <<>>)
                    \o <<valState>>

RetryAllowed(retryCount) == retryCount < MAX_VALIDATION_RETRIES

\* The catch block of the validation cycle: report `error`, fall through to
\* the success output.
ValidationErrorMutant(retryCount) ==
    [valState |-> "error", state |-> "output-error", kind |-> "validationFeedback",
     count |-> retryCount, attempt |-> 0, outputs |-> <<>>, returned |-> FALSE]
ValidationError(retryCount) ==
    [valState |-> "error", state |-> "output-available", kind |-> "success",
     count |-> retryCount, attempt |-> 0, outputs |-> <<>>, returned |-> FALSE]

\* The validation cycle after a successful display: the state reported last,
\* the tool output, the retry count left in the map (0: no entry), the
\* outputs added inside the cycle, and whether the handler returned there
\* or goes on to the success output after the cycle.
ValidationCycleMutant(cap, val, retryCount) ==
    IF cap = "throws" THEN ValidationError(retryCount)
    ELSE IF cap = "null" THEN
        [valState |-> "skipped", state |-> "output-available", kind |-> "success",
         count |-> retryCount, attempt |-> 0, outputs |-> <<>>, returned |-> FALSE]
    ELSE IF val.threw THEN ValidationError(retryCount)
    ELSE IF ~val.valid THEN
        IF RetryAllowed(retryCount) THEN
            [valState |-> "failed", state |-> "output-error",
             kind |-> "validationFeedback", count |-> retryCount + 1,
             attempt |-> retryCount + 1, outputs |-> <<"output-error">>,
             returned |-> FALSE]
        ELSE
            [valState |-> "skipped", state |-> "output-available",
             kind |-> "acceptedMaxRetries", count |-> 0, attempt |-> 0,
             outputs |-> <<"output-available">>, returned |-> TRUE]
    ELSE
        [valState |-> IF Len(val.issues) > 0 THEN "success_with_warnings" ELSE "success",
         state |-> "output-available", kind |-> "success", count |-> 0,
         attempt |-> 0, outputs |-> <<>>, returned |-> FALSE]
ValidationCycle(cap, val, retryCount) ==
    IF cap = "throws" THEN ValidationError(retryCount)
    ELSE IF cap = "null" THEN
        [valState |-> "skipped", state |-> "output-available", kind |-> "success",
         count |-> retryCount, attempt |-> 0, outputs |-> <<>>, returned |-> FALSE]
    ELSE IF val.threw THEN ValidationError(retryCount)
    ELSE IF ~val.valid THEN
        IF RetryAllowed(retryCount) THEN
            [valState |-> "failed", state |-> "output-error",
             kind |-> "validationFeedback", count |-> retryCount + 1,
             attempt |-> retryCount + 1, outputs |-> <<"output-error">>,
             returned |-> TRUE]
        ELSE
            [valState |-> "skipped", state |-> "output-available",
             kind |-> "acceptedMaxRetries", count |-> 0, attempt |-> 0,
             outputs |-> <<"output-available">>, returned |-> TRUE]
    ELSE
        [valState |-> IF Len(val.issues) > 0 THEN "success_with_warnings" ELSE "success",
         state |-> "output-available", kind |-> "success", count |-> 0,
         attempt |-> 0, outputs |-> <<>>, returned |-> FALSE]

HandleDisplayDiagramMutant(id, xml) ==
    /\ partialXml' = partialXml \o xml
    /\ last' = [NoCall EXCEPT !.tool = "display_diagram", !.toolCallId = id,
                    !.state = "output-error", !.outputs = <<"output-error">>, !.kind = "truncated",
                    !.quoted = SliceLast(partialXml \o xml, TailTokens),
                    !.input = xml]
    /\ UNCHANGED <<chartXML, validationRetryCount, validationEnabled, streak>>
HandleDisplayDiagramOn(id, xml, backends) ==
    IF ~IsMxCellXmlComplete(xml) THEN
        /\ partialXml' = xml
        /\ last' = [NoCall EXCEPT !.tool = "display_diagram", !.toolCallId = id,
                        !.state = "output-error", !.outputs = <<"output-error">>, !.kind = "truncated",
                        !.quoted = SliceLast(xml, TailTokens),
                        !.input = xml]
        /\ UNCHANGED <<chartXML, validationRetryCount, validationEnabled, streak>>
    ELSE
        LET fullXml == WrapWithMxFile(xml)
            shown == [NoCall EXCEPT !.tool = "display_diagram", !.toolCallId = id,
                        !.displayed = TRUE, !.handed = fullXml,
                        !.input = xml]
        IN
        /\ partialXml' = <<>>
        /\ UNCHANGED <<chartXML, validationEnabled>>
        /\ \/ \* onDisplayChart returns a validation error
              /\ last' = [shown EXCEPT !.state = "output-error", !.outputs = <<"output-error">>, !.kind = "loadError",
                                       !.quoted = xml]
              /\ UNCHANGED <<validationRetryCount, streak>>
           \/ \* displayed, no VLM validation configured
              /\ ~validationEnabled
              /\ last' = [shown EXCEPT !.state = "output-available", !.outputs = <<"output-available">>, !.kind = "success"]
              /\ UNCHANGED <<validationRetryCount, streak>>
           \/ \* displayed, then the validation cycle
              /\ validationEnabled
              /\ streak <= MAX_VALIDATION_RETRIES
              /\ \E cap \in Captures, backend \in backends, answer \in Verdicts :
                    LET val == ValidatePost(backend, cap, answer)
                        r == ValidationCycle(cap, val, validationRetryCount[id])
                        validated == cap = "png" /\ ~val.threw
                    IN
                    /\ validationRetryCount' =
                           [validationRetryCount EXCEPT ![id] = r.count]
                    /\ last' = [shown EXCEPT !.state = r.state, !.kind = r.kind,
                                     !.outputs = r.outputs \o (IF r.returned THEN <<>>
                                                  ELSE <<"output-available">>),
                                     !.valState = r.valState, !.attempt = r.attempt,
                                     !.validating = IF cap = "png"
                                                    THEN validationRetryCount[id] + 1
                                                    ELSE 0,
                                     !.threw = (cap = "throws") \/
                                               (cap = "png" /\ val.threw),
                                     !.reported = Reported(cap, r.valState),
                                     !.validated = validated,
                                     !.result =
                                        IF validated
                                        THEN [valid |-> val.valid, issues |-> val.issues,
                                              suggestions |-> val.suggestions]
                                        ELSE DEFAULT_VALID_RESULT,
                                     !.backend = backend,
                                     !.quoted =
                                        IF r.kind = "validationFeedback"
                                        THEN formatValidationFeedback(val) ELSE <<>>]
                    /\ streak' = IF r.kind = "validationFeedback" THEN streak + 1 ELSE 0

\* display_diagram against a server with a validation model
HandleDisplayDiagram(id, xml) == HandleDisplayDiagramOn(id, xml, {"model"})

\* --------------------------------------------------------- edit_diagram
Plain(id) == "cell:" \o id
Updated(id) == "cell*:" \o id
HasCell(doc, id) == \E i \in 1..Len(doc) : doc[i] \in {Plain(id), Updated(id)}

Operations == [type : {"add", "update", "delete"}, cell_id : CellIds]
OperationBatches == UNION {[1..n -> Operations] : n \in 1..MaxOps}

\* @/lib/utils applyDiagramOperations, one operation: the document after it
\* and its failure, if any. A failed operation is skipped.
ApplyOperation(doc, op) ==
    IF op.type = "add" THEN
        IF HasCell(doc, op.cell_id)
        THEN [doc |-> doc, errors |-> <<[type |-> "add", cellId |-> op.cell_id,
                                        message |-> "already exists"]>>]
        ELSE [doc |-> Append(doc, Plain(op.cell_id)), errors |-> <<>>]
    ELSE IF ~HasCell(doc, op.cell_id) THEN
        [doc |-> doc, errors |-> <<[type |-> op.type, cellId |-> op.cell_id,
                                   message |-> "not found"]>>]
    ELSE IF op.type = "update" THEN
        [doc |-> [i \in 1..Len(doc) |->
                    IF doc[i] = Plain(op.cell_id) THEN Updated(op.cell_id) ELSE doc[i]],
         errors |-> <<>>]
    ELSE
        [doc |-> SelectSeq(doc, LAMBDA t : t \notin {Plain(op.cell_id), Updated(op.cell_id)}),
         errors |-> <<>>]

\* @/lib/utils applyDiagramOperations: the operations in order, failures collected
RECURSIVE ApplyDiagramOperations(_, _)
ApplyDiagramOperations(xml, operations) ==
    IF operations = <<>> THEN [result |-> xml, errors |-> <<>>]
    ELSE LET one == ApplyOperation(xml, Head(operations))
             rest == ApplyDiagramOperations(one.doc, Tail(operations))
         IN [result |-> rest.result, errors |-> one.errors \o rest.errors]

\* handleEditDiagram: "Check for operation errors"
HasOperationErrorsMutant(errors) == FALSE
HasOperationErrors(errors) == Len(errors) > 0

\* handleEditDiagram: the error text's list, one line per failure
ErrorMessages(errors) ==
    [i \in 1..Len(errors) |-> <<errors[i].type, errors[i].cellId, errors[i].message>>]

\* handleEditDiagram: the base document, from the original captured while
\* streaming, else the cached chart, else the renderer
CurrentXml(originalXml, fetched) ==
    IF originalXml # <<>> THEN originalXml
    ELSE IF chartXML # <<>> THEN chartXML
    ELSE fetched

EditBases == {<<>>, <<Plain("2")>>, <<Plain("2"), Plain("3")>>}

HandleEditDiagram(id, operations, originalXml, fetched) ==
    LET currentXml == CurrentXml(originalXml, fetched)
        applied == ApplyDiagramOperations(currentXml, operations)
        call == [NoCall EXCEPT !.tool = "edit_diagram", !.toolCallId = id,
                                !.input = currentXml, !.operations = operations]
    IN
    /\ UNCHANGED <<partialXml, chartXML, validationRetryCount, validationEnabled,
                   streak>>
    /\ \/ \* something in the try block threw
          last' = [call EXCEPT !.state = "output-error", !.outputs = <<"output-error">>, !.kind = "editFailed",
                               !.quoted = currentXml]
       \/ IF HasOperationErrors(applied.errors) THEN
              last' = [call EXCEPT !.state = "output-error", !.outputs = <<"output-error">>,
                                   !.kind = "operationsFailed",
                                   !.listed = ErrorMessages(applied.errors),
                                   !.failed = applied.errors,
                                   !.quoted = currentXml]
          ELSE
              \/ \* onDisplayChart returns a validation error
                 last' = [call EXCEPT !.state = "output-error", !.outputs = <<"output-error">>, !.kind = "editInvalid",
                                      !.displayed = TRUE, !.handed = applied.result,
                                      !.failed = applied.errors,
                                      !.quoted = currentXml]
              \/ last' = [call EXCEPT !.state = "output-available", !.outputs = <<"output-available">>, !.kind = "success",
                                      !.displayed = TRUE, !.handed = applied.result,
                                      !.failed = applied.errors,
                                      !.exported = TRUE]

\* ------------------------------------------------------- append_diagram
\* handleAppendDiagram: "Append to accumulated XML"
AppendedMutant(partial, xml) == partial \o Trim(xml)
Appended(partial, xml) == partial \o xml

HandleAppendDiagram(id, xml) ==
    LET call == [NoCall EXCEPT !.tool = "append_diagram", !.toolCallId = id,
                                !.input = xml]
    IN
    /\ UNCHANGED <<chartXML, validationRetryCount, validationEnabled, streak>>
    /\ IF IsFreshStart(xml) THEN
           /\ last' = [call EXCEPT !.state = "output-error", !.outputs = <<"output-error">>, !.kind = "freshStart",
                                   !.quoted = SliceLast(partialXml, TailTokens)]
           /\ UNCHANGED partialXml
       ELSE
           LET appended == Appended(partialXml, xml) IN
           IF IsMxCellXmlComplete(appended) THEN
               LET fullXml == WrapWithMxFile(appended) IN
               /\ partialXml' = <<>>
               /\ \/ \* onDisplayChart returns a validation error
                     last' = [call EXCEPT !.state = "output-error", !.outputs = <<"output-error">>,
                                  !.kind = "assemblyError", !.displayed = TRUE,
                                  !.handed = fullXml, !.quoted = appended]
                  \/ last' = [call EXCEPT !.state = "output-available", !.outputs = <<"output-available">>,
                                  !.kind = "assembled", !.displayed = TRUE,
                                  !.handed = fullXml]
           ELSE
               /\ partialXml' = appended
               /\ last' = [call EXCEPT !.state = "output-error", !.outputs = <<"output-error">>,
                                !.kind = "stillIncomplete",
                                !.quoted = SliceLast(appended, TailTokens)]

\* ------------------------------------------------------- session store
\* Session ids by what isLikelyMcpSessionId reads of them.
McpId == [mcp |-> TRUE, length |-> 7]
PlainId == [mcp |-> FALSE, length |-> 7]
Sessions == {McpId, PlainId}

MaxVersion == 3
MaxTime == 2
\* SESSION_TTL, in clock ticks: one tick of `now` stands for SESSION_TTL ms
SESSION_TTL == 1
MAX_ID_LENGTH == 128

DEFAULT_DIAGRAM_XML == "default"
NoSvg == ""
Absent == [present |-> FALSE]

VARIABLES
    stateStore,     \* the Map: session id -> SessionState, or Absent
    now,            \* Date.now(), in ticks
    writes,         \* per session: setState calls since the entry was created
    posts,          \* per session: writes made by POST /api/state so far
    lastPost,       \* per session: the version the last POST write returned
    swept           \* per session: the TTL sweep has removed it at least once

storeVars == <<stateStore, now, writes, posts, lastPost, swept>>

\* The history module's log: per session id, the entries (document, preview)
\* in the order they were added; entry i of the API is element i + 1.
VARIABLES
    history

histVars == <<history>>

\* useValidateDiagram: pendingValidationRef (the promise whose handlers it
\* holds, 0 for null), every promise validate has returned (unused, pending,
\* resolved, rejected, or superseded: rejected with 'Validation superseded
\* by new request'), the requests submitted whose callback has not fired,
\* and the last call (event, with what it reported).
VARIABLES
    hook

hookVars == <<hook>>

isLikelyMcpSessionId(sessionId) ==
    sessionId.mcp /\ sessionId.length <= MAX_ID_LENGTH

Has(store, sessionId) == store[sessionId].present

\* existing?.version || 0
VersionOf(store, sessionId) ==
    IF Has(store, sessionId) THEN store[sessionId].version ELSE 0

NewVersionMutant(store, sessionId) ==
    IF Has(store, sessionId) THEN store[sessionId].version ELSE 1
NewVersion(store, sessionId) == VersionOf(store, sessionId) + 1

setStateKeepsSyncMutant(store, sessionId, xml, svg, time) ==
    [store EXCEPT ![sessionId] =
        [present |-> TRUE, xml |-> xml, version |-> NewVersion(store, sessionId),
         lastUpdated |-> time,
         svg |-> IF svg # NoSvg THEN svg
                 ELSE IF Has(store, sessionId) THEN store[sessionId].svg ELSE NoSvg,
         syncRequested |-> Has(store, sessionId) /\ store[sessionId].syncRequested,
         exportFormat |-> IF Has(store, sessionId)
                          THEN store[sessionId].exportFormat ELSE "none",
         exportData |-> IF Has(store, sessionId)
                        THEN store[sessionId].exportData ELSE "none"]]

setStateFreshEntryMutant(store, sessionId, xml, svg, time) ==
    [store EXCEPT ![sessionId] =
        [present |-> TRUE, xml |-> xml, version |-> NewVersion(store, sessionId),
         lastUpdated |-> time, svg |-> svg, syncRequested |-> FALSE,
         exportFormat |-> "none", exportData |-> "none"]]

\* setState: the store after the write; NewVersion is what it returns
setState(store, sessionId, xml, svg, time) ==
    [store EXCEPT ![sessionId] =
        [present |-> TRUE,
         xml |-> xml,
         version |-> NewVersion(store, sessionId),
         lastUpdated |-> time,
         svg |-> IF svg # NoSvg THEN svg
                 ELSE IF Has(store, sessionId) THEN store[sessionId].svg ELSE NoSvg,
         syncRequested |-> FALSE,
         exportFormat |-> IF Has(store, sessionId)
                          THEN store[sessionId].exportFormat ELSE "none",
         exportData |-> IF Has(store, sessionId)
                        THEN store[sessionId].exportData ELSE "none"]]

\* ensureSessionStateInitialized: does this reference create the session?
NeedsInitMutant(store, sessionId) == ~Has(store, sessionId)
NeedsInit(store, sessionId) ==
    isLikelyMcpSessionId(sessionId) /\ ~Has(store, sessionId)

ensureSessionStateInitializedMutant(store, sessionId, time) == store
ensureSessionStateInitialized(store, sessionId, time) ==
    IF NeedsInit(store, sessionId)
    THEN setState(store, sessionId, DEFAULT_DIAGRAM_XML, NoSvg, time)
    ELSE store

\* what GET /api/state answers from the (initialized) store
StateResponse(store, sessionId) ==
    IF Has(store, sessionId)
    THEN [xml |-> store[sessionId].xml, version |-> store[sessionId].version,
          syncRequested |-> store[sessionId].syncRequested,
          exportFormat |-> store[sessionId].exportFormat]
    ELSE [xml |-> "null", version |-> 0, syncRequested |-> FALSE,
          exportFormat |-> "none"]

\* the body GET /api/state?sessionId=... answers with when made now
GetResponse(sessionId) ==
    StateResponse(ensureSessionStateInitialized(stateStore, sessionId, now), sessionId)

\* the bookkeeping of one reference that may lazily create the session
CountInit(store, sessionId) ==
    IF NeedsInit(store, sessionId)
    THEN [writes EXCEPT ![sessionId] = 1]
    ELSE writes

\* GET /api/state?sessionId=...
GetState(sessionId) ==
    /\ stateStore' = ensureSessionStateInitialized(stateStore, sessionId, now)
    /\ writes' = CountInit(stateStore, sessionId)
    /\ UNCHANGED <<now, posts, lastPost, swept>>

\* POST /api/state {sessionId, xml, svg}
PostState(sessionId, xml, svg) ==
    /\ VersionOf(stateStore, sessionId) < MaxVersion
    /\ stateStore' = setState(stateStore, sessionId, xml, svg, now)
    /\ writes' = [writes EXCEPT ![sessionId] =
                    IF Has(stateStore, sessionId) THEN @ + 1 ELSE 1]
    /\ posts' = [posts EXCEPT ![sessionId] = @ + 1]
    /\ lastPost' = [lastPost EXCEPT ![sessionId] = NewVersion(stateStore, sessionId)]
    /\ UNCHANGED <<now, swept>>

Tick ==
    /\ now < MaxTime
    /\ now' = now + 1
    /\ UNCHANGED <<stateStore, writes, posts, lastPost, swept>>

ExpiredMutant(store, sessionId, time) ==
    Has(store, sessionId) /\ time - store[sessionId].lastUpdated >= SESSION_TTL
Expired(store, sessionId, time) ==
    Has(store, sessionId) /\ time - store[sessionId].lastUpdated > SESSION_TTL

\* cleanupExpiredSessions, one run of the interval timer
cleanupExpiredSessions ==
    /\ stateStore' = [s \in Sessions |->
                        IF Expired(stateStore, s, now) THEN Absent ELSE stateStore[s]]
    /\ writes' = [s \in Sessions |->
                    IF Expired(stateStore, s, now) THEN 0 ELSE writes[s]]
    /\ swept' = [s \in Sessions |-> swept[s] \/ Expired(stateStore, s, now)]
    /\ history' = [s \in DOMAIN history |->
                     IF s \in Sessions /\ Expired(stateStore, s, now)
                     THEN <<>> ELSE history[s]]
    /\ UNCHANGED <<now, posts, lastPost>>

InitStore ==
    /\ stateStore = [s \in Sessions |-> Absent]
    /\ now = 0
    /\ writes = [s \in Sessions |-> 0]
    /\ posts = [s \in Sessions |-> 0]
    /\ lastPost = [s \in Sessions |-> 0]
    /\ swept = [s \in Sessions |-> FALSE]

\* the hook has just mounted: refs empty, no tool call handled yet
InitHandlers(enableVlmValidation) ==
    /\ partialXml = <<>>
    /\ chartXML = <<>>
    /\ validationRetryCount = [id \in ToolCallIds |-> 0]
    /\ validationEnabled = enableVlmValidation
    /\ last = NoCall
    /\ streak = 0

\* ------------------------------------------------------- the served page
\* The script of the page served for one session, the draw.io renderer in its
\* iframe, the HTTP calls between the page and the store, and the MCP host
\* that writes to the store and asks for syncs and exports.  The save-file
\* dialog is left closed (pendingDownload stays null).
MaxEdits == 1
MaxHostWrites == 1
MaxRequests == 1
MaxInbox == 2

sessionId == McpId
NoDoc == "null"
HostDocs == {"X"}
EditDocs == {"A"}
ExportFormats == {"png", "svg"}

VARIABLES
    page,       \* the page script's variables
    renderer,   \* the draw.io iframe: listening or not, the document it shows
    inbox,      \* message events from the iframe the page has not handled yet
    timers,     \* setTimeout callbacks that have not run yet
    net,        \* HTTP responses on their way to the page
    host,       \* waiting: inside waitForSync (asleep: in its setTimeout); synced:
                \* what it returned last; ready: the renderer had announced
                \* itself to the page when requestSync was called; latest: the
                \* last write was the host's
    used,       \* user edits, host writes and host requests made so far; saves:
                \* the save/autosave events the listener took up, each with what
                \* became of it (pending, superseded, pushed with the preview
                \* "svg" or without "plain", "twice")
    exportPost, \* the last exportData POST: pending format, the reply's origin
    polled,     \* the poll response handled by this step, if it was one, and the
                \* commands the step posted to the iframe
    reply       \* export replies: abandoned expectations, how the last was consumed

syncVars == <<page, renderer, inbox, timers, net, host, used, exportPost, polled, reply>>

NoPoll == [version |-> -1, xml |-> NoDoc, loaded |-> FALSE, sent |-> <<>>]
NoExport == [pending |-> "none", purpose |-> "none", format |-> "none"]
\* no expectation abandoned, no export reply handled yet
NoReply == [abandoned |-> {}, purpose |-> "none", format |-> "none",
            by |-> "none", pending |-> "none", late |-> FALSE]
\* the listener handled the export reply msg: which expectation took it
Consumed(msg, by, pending) ==
    [reply EXCEPT !.purpose = msg.purpose, !.format = msg.format, !.by = by,
                  !.pending = pending, !.late = msg.purpose \in reply.abandoned]

\* messages from the page to the iframe
LoadMsg(xml) == [action |-> "load", xml |-> xml, format |-> "none", purpose |-> "none"]
ExportMsg(format, purpose) ==
    [action |-> "export", xml |-> NoDoc, format |-> format, purpose |-> purpose]

\* message events from the iframe to the page
InitEvent == [event |-> "init", xml |-> NoDoc, shape |-> "none", purpose |-> "none",
              format |-> "none"]
AutosaveEvent(xml) ==
    [event |-> "autosave", xml |-> xml, shape |-> "none", purpose |-> "none",
     format |-> "none"]

\* draw.io's reply to an export request: a PNG data URI, an SVG (as a data
\* URI or as markup, as the renderer is configured), or the document's XML.
ExportEvent(m, r) ==
    [event |-> "export",
     xml |-> IF m.format = "xml" THEN r.doc ELSE NoDoc,
     shape |-> IF m.format = "png" THEN "pngUri"
               ELSE IF m.format = "svg" THEN r.svgAs ELSE "xmlText",
     purpose |-> m.purpose,
     format |-> m.format]

\* what the page script reads of msg.data
StartsWithData(shape) == shape \in {"pngUri", "svgUri"}
StartsWithSvg(shape) == shape = "svgText"
StartsWithLt(shape) == shape \in {"svgText", "xmlText"}
\* every export of a diagram is longer than 100 characters
LongerThan100(shape) == shape \in {"pngUri", "svgUri", "svgText", "xmlText"}

isPng(pending, shape) ==
    pending = "png" /\ (shape = "pngUri" \/ (LongerThan100(shape) /\ ~StartsWithLt(shape)))
isSvg(pending, shape) ==
    pending = "svg" /\ (shape = "svgUri" \/ StartsWithSvg(shape))

\* iframe.contentWindow.postMessage, in order: a load replaces the document,
\* an export is answered; an iframe that is not listening yet loses them.
RECURSIVE Deliver(_, _, _)
Deliver(msgs, r, out) ==
    IF msgs = <<>> THEN [renderer |-> r, replies |-> out]
    ELSE LET m == Head(msgs) IN
         IF ~r.up THEN Deliver(Tail(msgs), r, out)
         ELSE IF m.action = "load"
              THEN Deliver(Tail(msgs), [r EXCEPT !.doc = m.xml], out)
              ELSE Deliver(Tail(msgs), r, Append(out, ExportEvent(m, r)))

Post(msgs, rest) ==
    LET d == Deliver(msgs, renderer, <<>>) IN
    /\ renderer' = d.renderer
    /\ inbox' = rest \o d.replies

\* the poll's version gate
VersionGateMutant(version, currentVersion) == version >= currentVersion
VersionGate(version, currentVersion) == version > currentVersion

\* pushState: POST /api/state {sessionId, xml, svg}; the store writes at once,
\* the response travels back
pushState(xml, svg, others) ==
    /\ PostState(sessionId, xml, svg)
    /\ net' = others \cup {[kind |-> "push", xml |-> xml,
                             version |-> NewVersion(stateStore, sessionId),
                             syncRequested |-> FALSE, exportFormat |-> "none"]}
    /\ host' = [host EXCEPT !.latest = FALSE]

InitPage ==
    [currentVersion |-> 0, isReady |-> FALSE, pendingXml |-> NoDoc, lastXml |-> NoDoc,
     pendingSvgExport |-> NoDoc, pendingAiSvg |-> FALSE, pendingMcpExport |-> "none",
     pendingSyncExport |-> FALSE]

\* the iframe's draw.io finishes loading and announces itself
RendererInit ==
    /\ ~renderer.up
    /\ renderer' = [renderer EXCEPT !.up = TRUE]
    /\ inbox' = Append(inbox, InitEvent)
    /\ polled' = NoPoll
    /\ UNCHANGED <<page, timers, net, host, used, exportPost, reply>>
    /\ UNCHANGED storeVars

\* pushState(xml, svg) for the pending save: the latest event taken up
Pushed(saves, how) ==
    [saves EXCEPT ![Len(saves)].fate = IF @ = "pending" THEN how ELSE "twice"]

\* draw.io sends a save or autosave event (the listener treats them alike)
\* with the document xml: the user has edited the diagram (autosave: 1), or
\* saves it as it is
UserSaves(xml, limit) ==
    /\ renderer.up /\ renderer.doc # NoDoc
    /\ used.edits < limit
    /\ Len(inbox) < MaxInbox
    /\ renderer' = [renderer EXCEPT !.doc = xml]
    /\ inbox' = Append(inbox, AutosaveEvent(xml))
    /\ used' = [used EXCEPT !.edits = @ + 1]
    /\ polled' = NoPoll
    /\ UNCHANGED <<page, timers, net, host, exportPost, reply>>
    /\ UNCHANGED storeVars

\* the user edits the diagram in draw.io
UserEdit(xml) == xml # renderer.doc /\ UserSaves(xml, MaxEdits)

\* POST /api/state {sessionId, exportData}
PostExportDataMutant(store, data) ==
    IF Has(store, sessionId)
    THEN [store EXCEPT ![sessionId].exportData = data,
                       ![sessionId].exportFormat = "none",
                       ![sessionId].syncRequested = FALSE]
    ELSE store

PostExportData(store, data) ==
    IF Has(store, sessionId)
    THEN [store EXCEPT ![sessionId].exportData = data,
                       ![sessionId].exportFormat = "none"]
    ELSE store

\* window 'message' listener, for the oldest unhandled event
OnMessage ==
    /\ inbox # <<>>
    /\ polled' = NoPoll
    /\ LET msg == Head(inbox)
           rest == Tail(inbox)
       IN
       \/ /\ msg.event = "init"
          /\ page' = IF page.pendingXml # NoDoc
                      THEN [page EXCEPT !.isReady = TRUE, !.lastXml = page.pendingXml,
                                        !.pendingXml = NoDoc]
                      ELSE [page EXCEPT !.isReady = TRUE]
          /\ Post(IF page.pendingXml # NoDoc THEN <<LoadMsg(page.pendingXml)>> ELSE <<>>,
                  rest)
          /\ UNCHANGED <<timers, net, host, used, exportPost, reply>>
          /\ UNCHANGED storeVars
       \/ /\ msg.event = "autosave"
          /\ IF msg.xml # NoDoc /\ msg.xml # page.lastXml THEN
                 /\ page' = [page EXCEPT !.pendingSvgExport = msg.xml]
                 /\ Post(<<ExportMsg("svg", "autosave")>>, rest)
                 /\ timers' = timers \cup {[kind |-> "autosave", xml |-> msg.xml]}
                 /\ reply' = [reply EXCEPT !.abandoned = @ \ {"autosave"}]
                 /\ used' = [used EXCEPT !.saves =
                       Append([i \in 1..Len(@) |->
                                 IF @[i].fate = "pending"
                                 THEN [@[i] EXCEPT !.fate = "superseded"] ELSE @[i]],
                              [xml |-> msg.xml, fate |-> "pending"])]
             ELSE
                 /\ inbox' = rest
                 /\ UNCHANGED <<page, renderer, timers, reply, used>>
          /\ UNCHANGED <<net, host, exportPost>>
          /\ UNCHANGED storeVars
       \/ /\ msg.event = "export"
          /\ inbox' = rest
          /\ UNCHANGED <<renderer, timers>>
          /\ IF page.pendingMcpExport # "none"
                /\ (isPng(page.pendingMcpExport, msg.shape)
                       \/ isSvg(page.pendingMcpExport, msg.shape)) THEN
                 /\ page' = [page EXCEPT !.pendingMcpExport = "none"]
                 /\ stateStore' = PostExportData(stateStore, msg.shape)
                 /\ exportPost' = [pending |-> page.pendingMcpExport,
                                   purpose |-> msg.purpose, format |-> msg.format]
                 /\ reply' = Consumed(msg, "mcp", page.pendingMcpExport)
                 /\ UNCHANGED <<net, host, used, now, writes, posts, lastPost, swept>>
             ELSE IF page.pendingSyncExport /\ ~StartsWithData(msg.shape)
                       /\ ~StartsWithSvg(msg.shape) THEN
                 /\ page' = [page EXCEPT !.pendingSyncExport = FALSE]
                 /\ pushState(msg.xml, NoSvg, net)
                 /\ reply' = Consumed(msg, "sync", "xml")
                 /\ UNCHANGED <<used, exportPost>>
             ELSE IF page.pendingSvgExport # NoDoc THEN
                 /\ page' = [page EXCEPT !.pendingSvgExport = NoDoc]
                 /\ pushState(page.pendingSvgExport, "svg1", net)
                 /\ reply' = Consumed(msg, "autosave", "svg")
                 /\ used' = [used EXCEPT !.saves = Pushed(@, "svg")]
                 /\ UNCHANGED exportPost
             ELSE
                 \* pendingAiSvg: the preview goes to /api/history-svg
                 /\ page' = [page EXCEPT !.pendingAiSvg = FALSE]
                 /\ reply' = IF page.pendingAiSvg THEN Consumed(msg, "preview", "svg")
                             ELSE Consumed(msg, "none", "none")
                 /\ UNCHANGED <<net, host, used, exportPost>>
                 /\ UNCHANGED storeVars

\* the fallback's test: is the save it was set for still pending?
FallbackDueMutant(pendingSvgExport, xml) == TRUE
FallbackDue(pendingSvgExport, xml) == pendingSvgExport = xml

\* a setTimeout callback runs
TimerFire(t) ==
    /\ t \in timers
    /\ timers' = timers \ {t}
    /\ polled' = NoPoll
    /\ UNCHANGED exportPost
    /\ \/ \* 2000 ms after an autosave: push without a preview
          /\ t.kind = "autosave"
          /\ IF FallbackDue(page.pendingSvgExport, t.xml) THEN
                 /\ page' = [page EXCEPT !.pendingSvgExport = NoDoc]
                 /\ pushState(t.xml, NoSvg, net)
                 /\ reply' = [reply EXCEPT !.abandoned = @ \cup {"autosave"}]
                 /\ used' = [used EXCEPT !.saves = Pushed(@, "plain")]
             ELSE
                 /\ UNCHANGED <<page, net, host, reply, used>>
                 /\ UNCHANGED storeVars
          /\ UNCHANGED <<renderer, inbox>>
       \/ \* 500 ms after a load: capture the preview
          /\ t.kind = "preview"
          /\ Len(inbox) < MaxInbox
          /\ page' = [page EXCEPT !.pendingAiSvg = TRUE]
          /\ Post(<<ExportMsg("svg", "preview")>>, inbox)
          /\ UNCHANGED <<net, host, reply, used>>
          /\ UNCHANGED storeVars
       \/ \* 8000 ms after an export request: stop waiting
          /\ t.kind = "mcp"
          /\ page' = [page EXCEPT !.pendingMcpExport = "none"]
          /\ reply' = IF page.pendingMcpExport # "none"
                      THEN [reply EXCEPT !.abandoned = @ \cup {"mcp"}]
                      ELSE reply
          /\ UNCHANGED <<renderer, inbox, net, host, used>>
          /\ UNCHANGED storeVars

\* poll(), up to the fetch: GET /api/state is answered from the store at once,
\* the response travels back
PollRequest ==
    /\ ~\E r \in net : r.kind = "poll"
    /\ Len(inbox) < MaxInbox
    /\ GetState(sessionId)
    /\ net' = net \cup
          {[kind |-> "poll"] @@
           StateResponse(ensureSessionStateInitialized(stateStore, sessionId, now),
                         sessionId)}
    /\ host' = [host EXCEPT !.latest = @ /\ ~NeedsInit(stateStore, sessionId)]
    /\ polled' = NoPoll
    /\ UNCHANGED <<page, renderer, inbox, timers, used, exportPost, reply>>

\* poll(), from the response on
PollResponse(s) ==
    LET wantSync == s.syncRequested /\ ~page.pendingSyncExport
        accept == VersionGate(s.version, page.currentVersion) /\ s.xml # NoDoc
        load == accept /\ page.isReady
        wantExport == s.exportFormat # "none" /\ page.pendingMcpExport = "none"
                        /\ page.isReady
        msgs == (IF wantSync THEN <<ExportMsg("xml", "sync")>> ELSE <<>>)
                   \o (IF load THEN <<LoadMsg(s.xml)>> ELSE <<>>)
                   \o (IF wantExport THEN <<ExportMsg(s.exportFormat, "mcp")>> ELSE <<>>)
    IN
    /\ s \in net /\ s.kind = "poll"
    /\ net' = net \ {s}
    /\ page' = [page EXCEPT
                  !.pendingSyncExport = @ \/ wantSync,
                  !.currentVersion = IF accept THEN s.version ELSE @,
                  !.pendingXml = IF accept /\ ~page.isReady THEN s.xml ELSE @,
                  !.lastXml = IF load THEN s.xml ELSE @,
                  !.pendingMcpExport = IF wantExport THEN s.exportFormat ELSE @]
    /\ Post(msgs, inbox)
    /\ timers' = timers
          \cup (IF load THEN {[kind |-> "preview", xml |-> NoDoc]} ELSE {})
          \cup (IF wantExport THEN {[kind |-> "mcp", xml |-> NoDoc]} ELSE {})
    /\ polled' = [version |-> s.version, xml |-> s.xml, loaded |-> load, sent |-> msgs]
    /\ reply' = IF wantExport THEN [reply EXCEPT !.abandoned = @ \ {"mcp"}] ELSE reply
    /\ UNCHANGED <<host, used, exportPost>>
    /\ UNCHANGED storeVars

\* pushState(), from the response on
PushResponse(d) ==
    /\ d \in net /\ d.kind = "push"
    /\ net' = net \ {d}
    /\ page' = [page EXCEPT !.currentVersion = d.version, !.lastXml = d.xml]
    /\ polled' = NoPoll
    /\ UNCHANGED <<renderer, inbox, timers, host, used, exportPost, reply>>
    /\ UNCHANGED storeVars

\* an MCP tool writes the session's document: setState(sessionId, xml)
HostWrite(xml) ==
    /\ used.writes < MaxHostWrites
    /\ VersionOf(stateStore, sessionId) < MaxVersion
    /\ stateStore' = setState(stateStore, sessionId, xml, NoSvg, now)
    /\ writes' = [writes EXCEPT ![sessionId] =
                    IF Has(stateStore, sessionId) THEN @ + 1 ELSE 1]
    /\ host' = [host EXCEPT !.latest = TRUE]
    /\ used' = [used EXCEPT !.writes = @ + 1]
    /\ polled' = NoPoll
    /\ UNCHANGED <<page, renderer, inbox, timers, net, exportPost, reply>>
    /\ UNCHANGED <<now, posts, lastPost, swept>>

\* requestSync(sessionId); on true the tool goes on to waitForSync
requestSync ==
    /\ used.requests < MaxRequests
    /\ ~host.waiting
    /\ IF Has(stateStore, sessionId) THEN
           /\ stateStore' = [stateStore EXCEPT ![sessionId].syncRequested = TRUE]
           /\ host' = [host EXCEPT !.waiting = TRUE, !.asleep = FALSE,
                                   !.synced = "none",
                                   !.ready = renderer.up /\ page.isReady]
       ELSE UNCHANGED <<stateStore, host>>
    /\ used' = [used EXCEPT !.requests = @ + 1]
    /\ polled' = NoPoll
    /\ UNCHANGED <<page, renderer, inbox, timers, net, exportPost, reply>>
    /\ UNCHANGED <<now, writes, posts, lastPost, swept>>

\* waitForSync, one step of its loop: the check of the flag (return true, or
\* sleep 100 ms), or the wake-up (check again while Date.now() - start is
\* below the timeout, return false once it is not).  No step writes the
\* store.
waitForSync ==
    /\ host.waiting
    /\ \/ /\ ~host.asleep
          /\ IF Has(stateStore, sessionId) /\ stateStore[sessionId].syncRequested
             THEN host' = [host EXCEPT !.asleep = TRUE]
             ELSE host' = [host EXCEPT !.waiting = FALSE, !.synced = "true"]
       \/ /\ host.asleep
          /\ \/ host' = [host EXCEPT !.asleep = FALSE]
             \/ host' = [host EXCEPT !.asleep = FALSE, !.waiting = FALSE,
                                     !.synced = "false"]
    /\ polled' = NoPoll
    /\ UNCHANGED <<page, renderer, inbox, timers, net, used, exportPost, reply>>
    /\ UNCHANGED storeVars

\* an MCP tool asks the browser for an export: state.exportFormat = format
markExportRequested(format) ==
    /\ used.requests < MaxRequests
    /\ Has(stateStore, sessionId)
    /\ stateStore' = [stateStore EXCEPT ![sessionId].exportFormat = format]
    /\ used' = [used EXCEPT !.requests = @ + 1]
    /\ polled' = NoPoll
    /\ UNCHANGED <<page, renderer, inbox, timers, net, host, exportPost, reply>>
    /\ UNCHANGED <<now, writes, posts, lastPost, swept>>

\* time passes
ClockTick ==
    /\ Tick
    /\ polled' = NoPoll
    /\ UNCHANGED <<page, renderer, inbox, timers, net, host, used, exportPost, reply>>

\* the interval timer's sweep, seen from the host's side
Sweep ==
    /\ cleanupExpiredSessions
    /\ host' = [host EXCEPT !.latest = @ /\ ~Expired(stateStore, sessionId, now)]
    /\ polled' = NoPoll
    /\ UNCHANGED <<page, renderer, inbox, timers, net, used, exportPost, reply>>

\* no page is open
InitNoPage ==
    /\ page = InitPage
    /\ renderer = [up |-> FALSE, doc |-> NoDoc, svgAs |-> "svgUri"]
    /\ inbox = <<>>
    /\ timers = {}
    /\ net = {}
    /\ host = [waiting |-> FALSE, latest |-> FALSE, asleep |-> FALSE,
               synced |-> "none", ready |-> FALSE]
    /\ used = [edits |-> 0, writes |-> 0, requests |-> 0, saves |-> <<>>]
    /\ exportPost = NoExport
    /\ reply = NoReply
    /\ polled = NoPoll

\* GET /?mcp=<sessionId> has served the page: the session exists, the script
\* starts, the iframe is still loading
InitPageServed ==
    /\ stateStore = ensureSessionStateInitialized([s \in Sessions |-> Absent],
                                                   sessionId, 0)
    /\ now = 0
    /\ writes = [s \in Sessions |-> IF s = sessionId THEN 1 ELSE 0]
    /\ posts = [s \in Sessions |-> 0]
    /\ lastPost = [s \in Sessions |-> 0]
    /\ swept = [s \in Sessions |-> FALSE]
    /\ page = InitPage
    /\ renderer \in [up : {FALSE}, doc : {NoDoc}, svgAs : {"svgUri", "svgText"}]
    /\ inbox = <<>>
    /\ timers = {}
    /\ net = {}
    /\ host = [waiting |-> FALSE, latest |-> FALSE, asleep |-> FALSE,
               synced |-> "none", ready |-> FALSE]
    /\ used = [edits |-> 0, writes |-> 0, requests |-> 0, saves |-> <<>>]
    /\ exportPost = NoExport
    /\ reply = NoReply
    /\ polled = NoPoll

\* nothing is on its way: no unhandled event, timer, HTTP response or wait
Quiescent == inbox = <<>> /\ timers = {} /\ net = {} /\ ~host.waiting

\* ------------------------------------------------ the store's interface
\* The call the store has just served, as its caller sees it: which
\* operation, for which session id, and what it returned.
VARIABLES
    op

obsVars == <<op>>

NoOp == [name |-> "none", id |-> McpId, svg |-> NoSvg, ok |-> FALSE, version |-> 0,
         flag |-> FALSE, index |-> 0, data |-> "none"]

\* an id with the 'mcp-' prefix that is one character too long
LongId == [mcp |-> TRUE, length |-> MAX_ID_LENGTH + 1]
AllIds == Sessions \cup {LongId}

\* svg: the preview a write supplied; flag: whether a sync request was
\* pending for the id when the call came in; data: the export result a
\* delivery carried
Served(name, id, svg, ok, version) ==
    [name |-> name, id |-> id, svg |-> svg, ok |-> ok, version |-> version,
     flag |-> Has(stateStore, id) /\ stateStore[id].syncRequested, index |-> 0,
     data |-> "none"]

\* GET /api/state?sessionId=id
ApiGetState(id) ==
    /\ GetState(id)
    /\ op' = Served("GET /api/state", id, NoSvg, TRUE, GetResponse(id).version)

\* GET /api/history?sessionId=id: reads the history, not the store
ApiGetHistory(id) ==
    /\ op' = Served("GET /api/history", id, NoSvg, TRUE, 0)
    /\ UNCHANGED storeVars

\* GET /?mcp=id: the page is served for the session
ApiServePage(id) ==
    /\ stateStore' = ensureSessionStateInitialized(stateStore, id, now)
    /\ writes' = CountInit(stateStore, id)
    /\ op' = Served("GET /", id, NoSvg, TRUE, 0)
    /\ UNCHANGED <<now, posts, lastPost, swept>>

\* POST /api/state {sessionId: id, xml, svg}
ApiPostState(id, xml, svg) ==
    /\ PostState(id, xml, svg)
    /\ op' = Served("POST /api/state", id, svg, TRUE, NewVersion(stateStore, id))

\* POST /api/state {sessionId, exportData}
ApiPostExportData(data) ==
    /\ stateStore' = PostExportData(stateStore, data)
    /\ op' = [Served("POST /api/state exportData", sessionId, NoSvg, TRUE, 0)
                 EXCEPT !.data = data]
    /\ UNCHANGED <<now, writes, posts, lastPost, swept>>

RequestSyncForMutant(id) ==
    /\ stateStore' = [ensureSessionStateInitialized(stateStore, id, now)
                         EXCEPT ![id].syncRequested = TRUE]
    /\ op' = Served("requestSync", id, NoSvg, TRUE, 0)
    /\ UNCHANGED <<now, writes, posts, lastPost, swept>>

\* requestSync(id), as any MCP tool may call it
RequestSyncFor(id) ==
    /\ IF Has(stateStore, id)
       THEN /\ stateStore' = [stateStore EXCEPT ![id].syncRequested = TRUE]
            /\ op' = Served("requestSync", id, NoSvg, TRUE, 0)
       ELSE /\ stateStore' = stateStore
            /\ op' = Served("requestSync", id, NoSvg, FALSE, 0)
    /\ UNCHANGED <<now, writes, posts, lastPost, swept>>

\* an MCP tool asks the browser of the session for an export
ApiMarkExportRequested(format) ==
    /\ Has(stateStore, sessionId)
    /\ stateStore' = [stateStore EXCEPT ![sessionId].exportFormat = format]
    /\ op' = Served("markExportRequested", sessionId, NoSvg, TRUE, 0)
    /\ UNCHANGED <<now, writes, posts, lastPost, swept>>

\* ------------------------------------------------------ the history log
MaxHistory == 3

HistoryDocs == {"H1", "H2"}

\* addHistory(sessionId, xml, svg): the log of the session after the call
addHistory(log, xml, svg) == Append(log, [xml |-> xml, svg |-> svg])

\* getHistoryEntry(sessionId, index): the entry, or NoEntry for undefined
NoEntry == [xml |-> NoDoc, svg |-> NoSvg]
getHistoryEntry(log, index) ==
    IF index \in 0..(Len(log) - 1) THEN log[index + 1] ELSE NoEntry

\* an MCP tool logs a snapshot of the session's document
HostAddHistory(id, xml, svg) ==
    /\ Len(history[id]) < MaxHistory
    /\ history' = [history EXCEPT ![id] = addHistory(@, xml, svg)]
    /\ op' = NoOp
    /\ UNCHANGED storeVars

ApiRestoreUndoMutant(id, index) ==
    LET entry == getHistoryEntry(history[id], index) IN
    /\ VersionOf(stateStore, id) < MaxVersion
    /\ Len(history[id]) < MaxHistory \/ entry = NoEntry
    /\ IF entry = NoEntry
       THEN /\ op' = [Served("POST /api/restore", id, NoSvg, FALSE, 0)
                         EXCEPT !.index = index]
            /\ UNCHANGED <<stateStore, writes, history>>
       ELSE /\ stateStore' = setState(stateStore, id, entry.xml, NoSvg, now)
            /\ writes' = [writes EXCEPT ![id] =
                            IF Has(stateStore, id) THEN @ + 1 ELSE 1]
            /\ history' = [history EXCEPT ![id] =
                             addHistory(SubSeq(@, 1, index + 1), entry.xml, entry.svg)]
            /\ op' = [Served("POST /api/restore", id, NoSvg, TRUE,
                             NewVersion(stateStore, id))
                         EXCEPT !.index = index]
    /\ UNCHANGED <<now, posts, lastPost, swept>>

ApiRestoreUncheckedMutant(id, index) ==
    LET entry == getHistoryEntry(history[id], index) IN
    /\ VersionOf(stateStore, id) < MaxVersion
    /\ Len(history[id]) < MaxHistory \/ entry = NoEntry
    /\ stateStore' = setState(stateStore, id, entry.xml, NoSvg, now)
    /\ writes' = [writes EXCEPT ![id] = IF Has(stateStore, id) THEN @ + 1 ELSE 1]
    /\ history' = [history EXCEPT ![id] =
                     IF entry = NoEntry THEN @ ELSE addHistory(@, entry.xml, entry.svg)]
    /\ op' = [Served("POST /api/restore", id, NoSvg, entry # NoEntry,
                     NewVersion(stateStore, id))
                 EXCEPT !.index = index]
    /\ UNCHANGED <<now, posts, lastPost, swept>>

\* POST /api/restore {sessionId: id, index}
ApiRestore(id, index) ==
    LET entry == getHistoryEntry(history[id], index) IN
    /\ VersionOf(stateStore, id) < MaxVersion
    /\ Len(history[id]) < MaxHistory \/ entry = NoEntry
    /\ IF entry = NoEntry
       THEN /\ op' = [Served("POST /api/restore", id, NoSvg, FALSE, 0)
                         EXCEPT !.index = index]
            /\ UNCHANGED <<stateStore, writes, history>>
       ELSE /\ stateStore' = setState(stateStore, id, entry.xml, NoSvg, now)
            /\ writes' = [writes EXCEPT ![id] =
                            IF Has(stateStore, id) THEN @ + 1 ELSE 1]
            /\ history' = [history EXCEPT ![id] = addHistory(@, entry.xml, entry.svg)]
            /\ op' = [Served("POST /api/restore", id, NoSvg, TRUE,
                             NewVersion(stateStore, id))
                         EXCEPT !.index = index]
    /\ UNCHANGED <<now, posts, lastPost, swept>>

\* POST /api/history-svg {sessionId: id, svg}: the preview of the newest entry
ApiHistorySvg(id, svg) ==
    /\ history' = [history EXCEPT ![id] =
                     IF @ = <<>> THEN @ ELSE [@ EXCEPT ![Len(@)].svg = svg]]
    /\ op' = Served("POST /api/history-svg", id, svg, TRUE, 0)
    /\ UNCHANGED storeVars

\* ------------------------------------------------- the validation hook
MaxValidations == 3

NoHook ==
    [pendingValidationRef |-> 0, promises |-> [id \in 1..MaxValidations |-> "unused"],
     requests |-> {}, event |-> "none", report |-> "none"]

\* pendingValidationRef.current?.reject / ?.resolve, then = null
Settle(h, how) ==
    [h EXCEPT !.promises = [id \in DOMAIN @ |->
                               IF id = h.pendingValidationRef THEN how ELSE @[id]],
              !.pendingValidationRef = 0]

\* validate(imageData, sessionId), returning promise id
validate(id) ==
    /\ hook.promises[id] = "unused"
    /\ \A j \in 1..(id - 1) : hook.promises[j] # "unused"
    /\ LET rejected == IF hook.pendingValidationRef # 0
                       THEN Settle(hook, "superseded") ELSE hook
       IN  hook' = [rejected EXCEPT !.promises[id] = "pending",
                                    !.pendingValidationRef = id,
                                    !.requests = @ \cup {id},
                                    !.event = "validate", !.report = "none"]
    /\ UNCHANGED <<toolVars, storeVars, syncVars, obsVars, histVars>>

\* useObject's onFinish({object, error}) for request r: it reports an error,
\* an object, or neither
onFinish(r, report) ==
    /\ r \in hook.requests
    /\ LET settled == IF report = "error" THEN Settle(hook, "rejected")
                      ELSE IF report = "object" THEN Settle(hook, "resolved")
                      ELSE hook
       IN  hook' = [settled EXCEPT !.requests = @ \ {r},
                                   !.event = "onFinish", !.report = report]
    /\ UNCHANGED <<toolVars, storeVars, syncVars, obsVars, histVars>>

\* useObject's onError(err) for request r
onError(r) ==
    /\ r \in hook.requests
    /\ hook' = [Settle(hook, "rejected") EXCEPT !.requests = @ \ {r},
                                                !.event = "onError", !.report = "error"]
    /\ UNCHANGED <<toolVars, storeVars, syncVars, obsVars, histVars>>

InitObs == op = NoOp /\ history = [s \in AllIds |-> <<>>] /\ hook = NoHook

vars == <<toolVars, storeVars, syncVars, obsVars, histVars, hookVars>>

\* ------------------------------------------------------- specifications
PostDocs == {"X", "Y"}
PostSvgs == {NoSvg, "svg1"}

\* The HTTP surface of the store, the clock and the sweep.
InitStoreSpec ==
    /\ InitStore
    /\ InitNoPage
    /\ InitHandlers(TRUE)
    /\ InitObs

NextStore ==
    \/ \E s \in Sessions : GetState(s) /\ UNCHANGED <<toolVars, syncVars, obsVars, histVars, hookVars>>
    \/ \E s \in Sessions, xml \in PostDocs, svg \in PostSvgs :
          PostState(s, xml, svg) /\ UNCHANGED <<toolVars, syncVars, obsVars, histVars, hookVars>>
    \/ Tick /\ UNCHANGED <<toolVars, syncVars, obsVars, histVars, hookVars>>
    \/ cleanupExpiredSessions /\ UNCHANGED <<toolVars, syncVars, obsVars, hookVars>>

SpecStore == InitStoreSpec /\ [][NextStore]_vars

\* The store as its callers see it: every HTTP request and host call with
\* what it returned, for ids of every shape.  No session expires, and
\* nothing is written under the over-long id.
InitApi ==
    /\ stateStore = [s \in AllIds |-> Absent]
    /\ now = 0
    /\ writes = [s \in AllIds |-> 0]
    /\ posts = [s \in AllIds |-> 0]
    /\ lastPost = [s \in AllIds |-> 0]
    /\ swept = [s \in AllIds |-> FALSE]
    /\ InitNoPage
    /\ InitHandlers(TRUE)
    /\ InitObs

NextApi ==
    \/ \E s \in AllIds : ApiGetState(s) /\ UNCHANGED <<toolVars, syncVars, histVars, hookVars>>
    \/ \E s \in AllIds : ApiGetHistory(s) /\ UNCHANGED <<toolVars, syncVars, histVars, hookVars>>
    \/ \E s \in AllIds : ApiServePage(s) /\ UNCHANGED <<toolVars, syncVars, histVars, hookVars>>
    \/ \E s \in Sessions, svg \in PostSvgs :
          ApiPostState(s, "X", svg) /\ UNCHANGED <<toolVars, syncVars, histVars, hookVars>>
    \/ \E data \in {"pngUri", "svgText"} :
          ApiPostExportData(data) /\ UNCHANGED <<toolVars, syncVars, histVars, hookVars>>
    \/ \E s \in AllIds : RequestSyncFor(s) /\ UNCHANGED <<toolVars, syncVars, histVars, hookVars>>
    \/ \E format \in ExportFormats :
          ApiMarkExportRequested(format) /\ UNCHANGED <<toolVars, syncVars, histVars, hookVars>>

SpecApi == InitApi /\ [][NextApi]_vars

\* formatValidationFeedback called once, on any result of bounded size.  One
\* of the suggestions reads like the text of an issue.
MaxIssues == 2
MaxSuggestions == 2

Issues ==
    [type : {"overlap", "text"}, severity : {"critical", "warning"},
     description : {"boxes overlap", "label cut off"}]
Suggestions == {"move the box", "[overlap] boxes overlap"}
Results ==
    [valid : BOOLEAN,
     issues : UNION {[1..n -> Issues] : n \in 0..MaxIssues},
     suggestions : UNION {[1..n -> Suggestions] : n \in 0..MaxSuggestions}]

NextFeedback ==
    /\ last = NoCall
    /\ \E result \in Results :
          FormatFeedback(result) /\ UNCHANGED <<storeVars, syncVars, obsVars, histVars, hookVars>>

SpecFeedback == InitStoreSpec /\ [][NextFeedback]_vars

\* The hook under up to MaxValidations calls of validate, with the callbacks
\* of every submitted request firing in any order.
NextHook ==
    \/ \E id \in 1..MaxValidations : validate(id)
    \/ \E r \in 1..MaxValidations, report \in {"object", "error", "neither"} :
          onFinish(r, report)
    \/ \E r \in 1..MaxValidations : onError(r)

SpecHook == InitStoreSpec /\ [][NextHook]_vars

\* loadFlattenedServerModels called once, on any configuration of bounded
\* size from either place, and on the ways of finding none.
MaxProviders == 2
MaxModels == 2

NextModels ==
    /\ last = NoCall
    /\ LET ProviderConfigs ==
              [provider : {"openai", "google"},
               models : UNION {[1..n -> {"m1", "m2"}] : n \in 0..MaxModels},
               default : BOOLEAN]
       IN
       \E providers \in UNION {[1..n -> ProviderConfigs] : n \in 0..MaxProviders},
          where \in {<<"valid", "missing">>, <<"unset", "valid">>,
                     <<"invalid", "valid">>, <<"unset", "invalid">>,
                     <<"unset", "missing">>},
          legacy \in {<<"", "">>, <<"m2", "">>, <<"m2", "google">>} :
          /\ where \notin {<<"valid", "missing">>, <<"unset", "valid">>}
                => Len(providers) = 1 /\ providers[1].models = <<"m1">>
          /\ LoadModels([envConfig |-> where[1], file |-> where[2],
                         providers |-> providers,
                         AI_MODEL |-> legacy[1], AI_PROVIDER |-> legacy[2]])
          /\ UNCHANGED <<storeVars, syncVars, obsVars, histVars, hookVars>>

SpecModels == InitStoreSpec /\ [][NextModels]_vars

\* The store with the history log under the clock: writes, snapshots and
\* the sweep.
NextSweep ==
    \/ \E s \in Sessions :
          PostState(s, "X", NoSvg) /\ UNCHANGED <<toolVars, syncVars, obsVars, histVars, hookVars>>
    \/ \E s \in Sessions :
          HostAddHistory(s, "H1", "svg2") /\ UNCHANGED <<toolVars, syncVars, hookVars>>
    \/ Tick /\ UNCHANGED <<toolVars, syncVars, obsVars, histVars, hookVars>>
    \/ cleanupExpiredSessions /\ UNCHANGED <<toolVars, syncVars, obsVars, hookVars>>

SpecSweep == InitStoreSpec /\ [][NextSweep]_vars

\* One request to the validation endpoint under any value of
\* VALIDATION_TIMEOUT of bounded length.
MaxEnvLen == 4
EnvValues ==
    {[set |-> FALSE, text |-> <<>>]} \cup
    {[set |-> TRUE, text |-> t] :
        t \in UNION {[1..n -> {"0", "1", "2", "a", " ", "-"}] : n \in 0..MaxEnvLen}}

NextTimeout ==
    /\ last = NoCall
    /\ \E env \in EnvValues :
          PostValidate(env) /\ UNCHANGED <<storeVars, syncVars, obsVars, histVars, hookVars>>

SpecTimeout == InitStoreSpec /\ [][NextTimeout]_vars

\* One session with its history log: writes, snapshots, preview updates
\* and restores.  No session expires.
NextRestore ==
    \/ ApiPostState(sessionId, "X", "svg1") /\ UNCHANGED <<toolVars, syncVars, histVars, hookVars>>
    \/ \E xml \in HistoryDocs :
          HostAddHistory(sessionId, xml, "svg2") /\ UNCHANGED <<toolVars, syncVars, hookVars>>
    \/ \E index \in -1..MaxHistory :
          ApiRestore(sessionId, index) /\ UNCHANGED <<toolVars, syncVars, hookVars>>
    \/ ApiHistorySvg(sessionId, "svg3") /\ UNCHANGED <<toolVars, syncVars, hookVars>>

SpecRestore == InitStoreSpec /\ [][NextRestore]_vars

\* display_diagram and append_diagram assembling a document from fragments,
\* in a configuration without VLM validation.
InitAssemble ==
    /\ InitStore
    /\ InitNoPage
    /\ InitHandlers(FALSE)
    /\ InitObs

NextAssemble ==
    \/ \E id \in ToolCallIds, xml \in Fragments :
          HandleDisplayDiagram(id, xml) /\ UNCHANGED <<storeVars, syncVars, obsVars, histVars, hookVars>>
    \/ \E id \in ToolCallIds, xml \in Fragments :
          /\ Len(partialXml) + Len(xml) <= MaxPartialLen
          /\ HandleAppendDiagram(id, xml)
          /\ UNCHANGED <<storeVars, syncVars, obsVars, histVars, hookVars>>

SpecAssemble == InitAssemble /\ [][NextAssemble]_vars

\* The validation cycle: display_diagram calls with complete XML, VLM
\* validation configured.  The validator never reads the fragment itself (it
\* is handed a PNG capture), so one complete fragment stands for all.
CompleteXml == <<"open", "close">>

NextValidate ==
    \E id \in ToolCallIds :
       HandleDisplayDiagram(id, CompleteXml) /\ UNCHANGED <<storeVars, syncVars, obsVars, histVars, hookVars>>

InitValidate == InitStore /\ InitNoPage /\ InitHandlers(TRUE) /\ InitObs

SpecValidate == InitValidate /\ [][NextValidate]_vars

\* display_diagram alone on complete and on truncated fragments, in a
\* configuration with VLM validation.
DisplayInputs == {CompleteXml, <<"open">>, <<"close", "open">>, <<"open", "ws">>}

NextDisplay ==
    \E id \in ToolCallIds, xml \in DisplayInputs :
       HandleDisplayDiagram(id, xml) /\ UNCHANGED <<storeVars, syncVars, obsVars, histVars, hookVars>>

SpecDisplay == InitValidate /\ [][NextDisplay]_vars

\* display_diagram on complete fragments for every configuration of the
\* handler (enableVlmValidation, captureValidationPng and validateDiagram
\* given or not) and of the server behind the validation endpoint.
InitBackend ==
    /\ InitStore
    /\ InitNoPage
    /\ partialXml = <<>>
    /\ chartXML = <<>>
    /\ validationRetryCount = [id \in ToolCallIds |-> 0]
    /\ \E enableVlmValidation, captureValidationPng, validateDiagram \in BOOLEAN :
          validationEnabled =
             (enableVlmValidation /\ captureValidationPng /\ validateDiagram)
    /\ last = NoCall
    /\ streak = 0
    /\ InitObs

NextBackend ==
    \E id \in ToolCallIds :
       /\ HandleDisplayDiagramOn(id, CompleteXml, Backends)
       /\ UNCHANGED <<storeVars, syncVars, obsVars, histVars, hookVars>>

SpecBackend == InitBackend /\ [][NextBackend]_vars

\* edit_diagram on a chart that holds some document.  The handler keeps no
\* state between calls, so each call starts once the previous output has been
\* handed back to the chat.
InitEdit ==
    /\ InitStore
    /\ InitNoPage
    /\ partialXml = <<>>
    /\ chartXML \in EditBases
    /\ validationRetryCount = [id \in ToolCallIds |-> 0]
    /\ validationEnabled = TRUE
    /\ last = NoCall
    /\ streak = 0
    /\ InitObs

EditCall ==
    /\ last = NoCall
    /\ \E id \in ToolCallIds, operations \in OperationBatches,
          originalXml \in EditBases :
          \E fetched \in IF originalXml = <<>> /\ chartXML = <<>>
                          THEN EditBases ELSE {<<>>} :
             HandleEditDiagram(id, operations, originalXml, fetched)
    /\ UNCHANGED <<storeVars, syncVars, obsVars, histVars, hookVars>>

\* addToolOutput: the output leaves the handler.
OutputTaken ==
    /\ last # NoCall
    /\ last' = NoCall
    /\ UNCHANGED <<partialXml, chartXML, validationRetryCount, validationEnabled,
                   streak>>
    /\ UNCHANGED <<storeVars, syncVars, obsVars, histVars, hookVars>>

NextEdit == EditCall \/ OutputTaken

SpecEdit == InitEdit /\ [][NextEdit]_vars

\* display_diagram and edit_diagram calls in any order, VLM validation
\* configured: the model answers feedback with either tool.
NextRepair ==
    \/ \E id \in ToolCallIds :
          /\ HandleDisplayDiagram(id, CompleteXml)
          /\ UNCHANGED <<storeVars, syncVars, obsVars, histVars, hookVars>>
    \/ \E id \in ToolCallIds, type \in {"add", "delete"} :
          /\ HandleEditDiagram(id, <<[type |-> type, cell_id |-> "3"]>>, <<>>, <<>>)
          /\ UNCHANGED <<storeVars, syncVars, obsVars, histVars, hookVars>>

SpecRepair == InitEdit /\ [][NextRepair]_vars

\* The three tools in any order on one handler, VLM validation configured,
\* the calls of one tool-call id (the handlers share nothing between ids but
\* the partial document): display_diagram on a complete and on a truncated
\* fragment, append_diagram on continuations and on a fresh start,
\* edit_diagram on one operation.
NextHandlers ==
    \/ \E xml \in {CompleteXml, <<"open">>} :
          /\ HandleDisplayDiagram(1, xml)
          /\ UNCHANGED <<storeVars, syncVars, obsVars, histVars, hookVars>>
    \/ \E xml \in {<<"close">>, <<"ws">>, <<"root">>} :
          /\ Len(partialXml) + Len(xml) <= MaxPartialLen
          /\ HandleAppendDiagram(1, xml)
          /\ UNCHANGED <<storeVars, syncVars, obsVars, histVars, hookVars>>
    \/ \E type \in {"add", "update", "delete"} :
          /\ HandleEditDiagram(1, <<[type |-> type, cell_id |-> "3"]>>, <<>>, <<>>)
          /\ UNCHANGED <<storeVars, syncVars, obsVars, histVars, hookVars>>

SpecHandlers == InitEdit /\ [][NextHandlers]_vars

\* The page of one session with its renderer, the host writing documents,
\* the clock and the sweep.
InitSync ==
    /\ InitPageServed
    /\ InitHandlers(TRUE)
    /\ InitObs

NextSync ==
    \/ RendererInit /\ UNCHANGED <<toolVars, obsVars, histVars, hookVars>>
    \/ \E xml \in EditDocs : UserEdit(xml) /\ UNCHANGED <<toolVars, obsVars, histVars, hookVars>>
    \/ OnMessage /\ UNCHANGED <<toolVars, obsVars, histVars, hookVars>>
    \/ \E t \in timers : TimerFire(t) /\ UNCHANGED <<toolVars, obsVars, histVars, hookVars>>
    \/ PollRequest /\ UNCHANGED <<toolVars, obsVars, histVars, hookVars>>
    \/ \E s \in net : PollResponse(s) /\ UNCHANGED <<toolVars, obsVars, histVars, hookVars>>
    \/ \E d \in net : PushResponse(d) /\ UNCHANGED <<toolVars, obsVars, histVars, hookVars>>
    \/ \E xml \in HostDocs : HostWrite(xml) /\ UNCHANGED <<toolVars, obsVars, histVars, hookVars>>
    \/ ClockTick /\ UNCHANGED <<toolVars, obsVars, histVars, hookVars>>
    \/ Sweep /\ UNCHANGED <<toolVars, obsVars, hookVars>>

SpecSync == InitSync /\ [][NextSync]_vars

\* The same without the clock: the session is never swept.
NextPoll ==
    \/ RendererInit /\ UNCHANGED <<toolVars, obsVars, histVars, hookVars>>
    \/ \E xml \in EditDocs : UserEdit(xml) /\ UNCHANGED <<toolVars, obsVars, histVars, hookVars>>
    \/ OnMessage /\ UNCHANGED <<toolVars, obsVars, histVars, hookVars>>
    \/ \E t \in timers : TimerFire(t) /\ UNCHANGED <<toolVars, obsVars, histVars, hookVars>>
    \/ PollRequest /\ UNCHANGED <<toolVars, obsVars, histVars, hookVars>>
    \/ \E s \in net : PollResponse(s) /\ UNCHANGED <<toolVars, obsVars, histVars, hookVars>>
    \/ \E d \in net : PushResponse(d) /\ UNCHANGED <<toolVars, obsVars, histVars, hookVars>>
    \/ \E xml \in HostDocs : HostWrite(xml) /\ UNCHANGED <<toolVars, obsVars, histVars, hookVars>>

SpecPoll == InitSync /\ [][NextPoll]_vars

\* The page of one session with its renderer, the host asking for syncs and
\* exports.
NextExport ==
    \/ RendererInit /\ UNCHANGED <<toolVars, obsVars, histVars, hookVars>>
    \/ \E xml \in EditDocs : UserEdit(xml) /\ UNCHANGED <<toolVars, obsVars, histVars, hookVars>>
    \/ OnMessage /\ UNCHANGED <<toolVars, obsVars, histVars, hookVars>>
    \/ \E t \in timers : TimerFire(t) /\ UNCHANGED <<toolVars, obsVars, histVars, hookVars>>
    \/ PollRequest /\ UNCHANGED <<toolVars, obsVars, histVars, hookVars>>
    \/ \E s \in net : PollResponse(s) /\ UNCHANGED <<toolVars, obsVars, histVars, hookVars>>
    \/ \E d \in net : PushResponse(d) /\ UNCHANGED <<toolVars, obsVars, histVars, hookVars>>
    \/ requestSync /\ UNCHANGED <<toolVars, obsVars, histVars, hookVars>>
    \/ waitForSync /\ UNCHANGED <<toolVars, obsVars, histVars, hookVars>>
    \/ \E format \in ExportFormats : markExportRequested(format) /\ UNCHANGED <<toolVars, obsVars, histVars, hookVars>>

SpecExport == InitSync /\ [][NextExport]_vars

\* The page of one session with its renderer while the user edits and saves:
\* up to MaxSaves save/autosave events, with the same or another document
\* (the first edit makes it "A").  The renderer exports SVG as a data URI.
MaxSaves == 2

InitAutosave == InitSync /\ renderer.svgAs = "svgUri"

NextAutosave ==
    \/ RendererInit /\ UNCHANGED <<toolVars, obsVars, histVars, hookVars>>
    \/ \E xml \in IF used.edits = 0 THEN {"A"} ELSE {"A", "B"} :
          UserSaves(xml, MaxSaves) /\ UNCHANGED <<toolVars, obsVars, histVars, hookVars>>
    \/ OnMessage /\ UNCHANGED <<toolVars, obsVars, histVars, hookVars>>
    \/ \E t \in timers : TimerFire(t) /\ UNCHANGED <<toolVars, obsVars, histVars, hookVars>>
    \/ PollRequest /\ UNCHANGED <<toolVars, obsVars, histVars, hookVars>>
    \/ \E s \in net : PollResponse(s) /\ UNCHANGED <<toolVars, obsVars, histVars, hookVars>>
    \/ \E d \in net : PushResponse(d) /\ UNCHANGED <<toolVars, obsVars, histVars, hookVars>>

SpecAutosave == InitAutosave /\ [][NextAutosave]_vars

\* The page of one session with its renderer while the host asks for a
\* sync and waits for it.  A sync request may already be pending when the
\* page is served (the host asked, and gave up, while no page was open).  The
\* browser runs every callback that is due: the iframe finishes loading,
\* message events and timers are handled, the interval timer polls, HTTP
\* responses arrive; the host's wait loop runs on.
InitWait ==
    /\ \E asked \in BOOLEAN :
          stateStore =
             [ensureSessionStateInitialized([s \in Sessions |-> Absent], sessionId, 0)
                 EXCEPT ![sessionId].syncRequested = asked]
    /\ now = 0
    /\ writes = [s \in Sessions |-> IF s = sessionId THEN 1 ELSE 0]
    /\ posts = [s \in Sessions |-> 0]
    /\ lastPost = [s \in Sessions |-> 0]
    /\ swept = [s \in Sessions |-> FALSE]
    /\ renderer \in [up : {FALSE}, doc : {NoDoc}, svgAs : {"svgUri", "svgText"}]
    /\ page = InitPage
    /\ inbox = <<>>
    /\ timers = {}
    /\ net = {}
    /\ host = [waiting |-> FALSE, latest |-> FALSE, asleep |-> FALSE,
               synced |-> "none", ready |-> FALSE]
    /\ used = [edits |-> 0, writes |-> 0, requests |-> 0, saves |-> <<>>]
    /\ exportPost = NoExport
    /\ reply = NoReply
    /\ polled = NoPoll
    /\ InitHandlers(TRUE)
    /\ InitObs

NextWait ==
    \/ RendererInit /\ UNCHANGED <<toolVars, obsVars, histVars, hookVars>>
    \/ OnMessage /\ UNCHANGED <<toolVars, obsVars, histVars, hookVars>>
    \/ \E t \in timers : TimerFire(t) /\ UNCHANGED <<toolVars, obsVars, histVars, hookVars>>
    \/ PollRequest /\ UNCHANGED <<toolVars, obsVars, histVars, hookVars>>
    \/ \E s \in net : PollResponse(s) /\ UNCHANGED <<toolVars, obsVars, histVars, hookVars>>
    \/ \E d \in net : PushResponse(d) /\ UNCHANGED <<toolVars, obsVars, histVars, hookVars>>
    \/ requestSync /\ UNCHANGED <<toolVars, obsVars, histVars, hookVars>>
    \/ waitForSync /\ UNCHANGED <<toolVars, obsVars, histVars, hookVars>>

SpecWait ==
    /\ InitWait
    /\ [][NextWait]_vars
    /\ WF_vars(RendererInit /\ UNCHANGED <<toolVars, obsVars, histVars, hookVars>>)
    /\ WF_vars(OnMessage /\ UNCHANGED <<toolVars, obsVars, histVars, hookVars>>)
    /\ WF_vars(\E t \in timers : TimerFire(t) /\ UNCHANGED <<toolVars, obsVars, histVars, hookVars>>)
    /\ WF_vars(PollRequest /\ UNCHANGED <<toolVars, obsVars, histVars, hookVars>>)
    /\ WF_vars(\E s \in net : PollResponse(s) /\ UNCHANGED <<toolVars, obsVars, histVars, hookVars>>)
    /\ WF_vars(\E d \in net : PushResponse(d) /\ UNCHANGED <<toolVars, obsVars, histVars, hookVars>>)
    /\ WF_vars(waitForSync /\ UNCHANGED <<toolVars, obsVars, histVars, hookVars>>)

\* ------------------------------------------------------------ properties

C2_AtMostThreeFeedbackErrors == streak <= MAX_VALIDATION_RETRIES

\* C3: when applying the batch to the base document reports a failure (and
\* the handler itself did not throw), the call made neither an onDisplayChart
\* nor an onExport call and returned an error output listing each failed
\* operation's type, cell id and message, in order.
C3_FailedBatchNotCommitted ==
    LET applied == ApplyDiagramOperations(last.input, last.operations) IN
    last.tool = "edit_diagram" /\ last.kind # "editFailed"
        /\ Len(applied.errors) > 0 =>
            /\ ~last.displayed
            /\ ~last.exported
            /\ last.state = "output-error"
            /\ Len(last.listed) = Len(applied.errors)
            /\ \A i \in 1..Len(applied.errors) :
                  last.listed[i] = <<applied.errors[i].type,
                                     applied.errors[i].cellId,
                                     applied.errors[i].message>>

\* A batch of which one operation applied and another failed: the partial
\* result differs from the base document.
C3_Witness ==
    LET applied == ApplyDiagramOperations(last.input, last.operations) IN
    /\ last.tool = "edit_diagram" /\ last.kind = "operationsFailed"
    /\ Len(applied.errors) > 0
    /\ Len(applied.errors) < Len(last.operations)
    /\ applied.result # last.input

\* The round trip of C4 for the step from display_diagram(P) to
\* append_diagram(S), given what makes S a fresh start.
RoundTrip(marked) ==
    LET P == last.input
        S == last'.input
    IN
    /\ last.tool = "display_diagram" /\ last.kind = "truncated"
    /\ last'.tool = "append_diagram"
    /\ IsMxCellXmlComplete(P \o S)
    /\ ~marked
    => /\ last'.displayed
       /\ last'.handed = WrapWithMxFile(P \o S)
       /\ partialXml' = <<>>

StartsWithMarker(xml) == xml # <<>> /\ Head(xml) = "root"

\* C4 (as stated): P incomplete, P ++ S complete, S not starting with a
\* wrapper or root-cell marker: display_diagram(P) then append_diagram(S)
\* hands the renderer the wrapped P ++ S and empties the partial buffer.
C4_RoundTrip == [][RoundTrip(StartsWithMarker(last'.input))]_vars

\* C4 (amended): the same, for S that does not start with a wrapper or
\* root-cell marker once its surrounding whitespace is trimmed.
C4_RoundTripTrimmed == [][RoundTrip(IsFreshStart(last'.input))]_vars

\* An assembled continuation whose suffix starts with whitespace.
C4_Witness ==
    /\ last.tool = "append_diagram" /\ last.kind = "assembled"
    /\ last.displayed /\ partialXml = <<>>
    /\ Head(last.input) = "ws"
    /\ Len(last.handed) > Len(last.input) + 2

\* C5: when the capture or the validation call threw, the call reported the
\* validation state `error` and returned the success output.
C5_FailOpen ==
    last.threw =>
        /\ last.displayed
        /\ last.valState = "error"
        /\ last.state = "output-available"
        /\ last.kind = "success"

\* The validator threw on a retry, after a failed attempt under the same id.
C5_Witness ==
    /\ last.tool = "display_diagram" /\ last.threw
    /\ validationRetryCount[last.toolCallId] > 0

\* C6: a step that handles a poll response posts a load message only if the
\* polled version is strictly greater than the recorded one and xml is
\* present; otherwise the step changes neither currentVersion nor lastXml
\* (nor the buffered pendingXml, nor what the renderer shows).
C6_VersionGating ==
    [][polled' # NoPoll =>
          LET newer == polled'.version > page.currentVersion /\ polled'.xml # NoDoc IN
          /\ polled'.loaded => newer
          /\ ~newer =>
                /\ page'.currentVersion = page.currentVersion
                /\ page'.lastXml = page.lastXml
                /\ page'.pendingXml = page.pendingXml
                /\ renderer'.doc = renderer.doc]_vars

\* A ready page has just handled a poll response that is not newer than what
\* it recorded and carries a document other than the page's last one.
C6_Witness ==
    /\ polled # NoPoll /\ ~polled.loaded
    /\ page.isReady
    /\ polled.version > 0 /\ polled.version <= page.currentVersion
    /\ polled.xml # NoDoc /\ polled.xml # page.lastXml

\* C7: whatever was posted to the store as exportData was the renderer's
\* reply to the host-initiated export request, in the pending format.
C7_OnlyTheRequestedExportPosted ==
    exportPost # NoExport =>
        exportPost.purpose = "mcp" /\ exportPost.format = exportPost.pending

\* C8: for a ready page, while the latest write to the session is the
\* host's, either the page has loaded it or the version gate will let the
\* next poll load it.
C8_HostWriteLoadable ==
    page.isReady /\ host.latest /\ Has(stateStore, sessionId) =>
        \/ stateStore[sessionId].version > page.currentVersion
        \/ stateStore[sessionId].xml = page.lastXml

\* C9: on a session that was never swept, once nothing is on its way and no
\* poll can change anything, the renderer shows the store's document.
C9_QuiescentConsistent ==
    /\ Quiescent /\ page.isReady
    /\ Has(stateStore, sessionId) /\ ~swept[sessionId]
    /\ stateStore[sessionId].version <= page.currentVersion
    => renderer.doc = stateStore[sessionId].xml

\* C10: once every wait has run out (no timer pending, waitForSync returned,
\* nothing on its way), no host-initiated expectation is left set.
C10_ExpectationsCleared ==
    Quiescent =>
        /\ page.pendingMcpExport = "none"
        /\ ~page.pendingSyncExport
        /\ Has(stateStore, sessionId) => ~stateStore[sessionId].syncRequested

\* C11: an export reply that arrives after its expectation was abandoned (its
\* timeout ran with the expectation still pending) is either ignored or taken
\* by a pending expectation of the same kind and format; it is never taken by
\* an expectation of another kind.
C11_LateReplyNotMisattributed ==
    reply.late =>
        \/ reply.by = "none"
        \/ reply.by = reply.purpose /\ reply.pending = reply.format

\* C12: over the whole life of a session id, the TTL sweep and a later
\* re-creation included, every write returns a version above the one the
\* previous write returned, and the version stored is never below a version
\* that a write has returned.
C12_VersionsNeverReused ==
    [][\A s \in Sessions :
          /\ posts'[s] # posts[s] => lastPost'[s] > lastPost[s]
          /\ Has(stateStore', s) => stateStore'[s].version >= lastPost'[s]]_vars

C14_ReadNeverCreates ==
    [][op'.name \in {"GET /api/state", "GET /api/history", "GET /"}
          /\ ~isLikelyMcpSessionId(op'.id) /\ ~Has(stateStore, op'.id)
       => stateStore' = stateStore]_vars

\* the session of recognized shape exists, and the last call was a state read
\* with an over-long 'mcp-' id, which is still absent
C14_Witness ==
    /\ op.name = "GET /api/state" /\ op.id = LongId
    /\ ~Has(stateStore, LongId) /\ Has(stateStore, McpId)

\* the fragment, once trimmed, begins with a wrapper or root-cell marker
TrimmedStartsWithMarker(xml) == StartsWithMarker(Trim(xml))

\* t is the last n tokens of s (all of s if it is shorter)
IsTailOf(t, s, n) ==
    /\ Len(t) = (IF Len(s) <= n THEN Len(s) ELSE n)
    /\ \A i \in 1..Len(t) : t[i] = s[Len(s) - Len(t) + i]

\* C15: an append_diagram call whose trimmed fragment starts with a wrapper
\* or root-cell marker is answered with an error output that quotes the tail
\* of the buffer, leaves the buffer as it was, and hands nothing to the
\* renderer.
C15_FreshStartRejected ==
    [][last'.tool = "append_diagram" /\ TrimmedStartsWithMarker(last'.input) =>
          /\ last'.state = "output-error" /\ last'.kind = "freshStart"
          /\ IsTailOf(last'.quoted, partialXml, TailTokens)
          /\ partialXml' = partialXml
          /\ ~last'.displayed /\ last'.handed = <<>>]_vars

\* a fragment of whitespace followed by a marker was rejected while the
\* buffer held more than the quoted tail
C15_Witness ==
    /\ last.tool = "append_diagram" /\ last.kind = "freshStart"
    /\ Head(last.input) = "ws"
    /\ Len(partialXml) > TailTokens /\ partialXml[1] # partialXml[Len(partialXml)]

\* C16: a display_diagram call with an incomplete fragment replaces the
\* buffer by exactly that fragment, answers with an error output asking for a
\* continuation and quoting the tail of the buffer, does not call
\* onDisplayChart and starts no validation cycle.
C16_TruncatedDisplayStored ==
    [][last'.tool = "display_diagram" /\ ~IsMxCellXmlComplete(last'.input) =>
          /\ partialXml' = last'.input
          /\ last'.state = "output-error" /\ last'.kind = "truncated"
          /\ IsTailOf(last'.quoted, partialXml', TailTokens)
          /\ ~last'.displayed /\ last'.handed = <<>>
          /\ last'.valState = "none" /\ last'.attempt = 0
          /\ validationRetryCount' = validationRetryCount
          /\ streak' = streak]_vars

\* an incomplete fragment replaced a buffer left by an earlier truncated call,
\* with validation configured and a retry already counted
C16_Witness ==
    /\ last.tool = "display_diagram" /\ last.kind = "truncated"
    /\ validationEnabled /\ partialXml = last.input
    /\ \E id \in ToolCallIds : validationRetryCount[id] > 0

\* a root or wrapper marker occurs somewhere in the fragment
ContainsMarker(xml) == \E i \in 1..Len(xml) : xml[i] = "root"

\* C17 (as stated): the buffer is empty after append_diagram has received a
\* fragment that contains a root or wrapper marker.
C17_RestartDiscardsBuffer ==
    [][last'.tool = "append_diagram" /\ ContainsMarker(last'.input) =>
          partialXml' = <<>>]_vars

\* C17 (amended): append_diagram leaves the buffer as it was when the trimmed
\* fragment begins with a marker; otherwise it appends the fragment, markers
\* and all, and empties the buffer exactly when the result is complete.
C17_RestartKeepsBuffer ==
    [][last'.tool = "append_diagram" =>
          IF TrimmedStartsWithMarker(last'.input)
          THEN partialXml' = partialXml
          ELSE IF IsMxCellXmlComplete(partialXml \o last'.input)
               THEN partialXml' = <<>>
               ELSE partialXml' = partialXml \o last'.input]_vars

\* a fragment that begins with a marker was rejected and the buffer is still
\* there
C17_Witness ==
    /\ last.tool = "append_diagram" /\ last.kind = "freshStart"
    /\ Head(last.input) = "root" /\ partialXml # <<>>

\* the sync-request flag of session s in store
SyncFlag(store, s) == Has(store, s) /\ store[s].syncRequested

\* C18: right after an accepted write to a session its sync-request flag is
\* unset and GET /api/state reports syncRequested false; the flag of a session
\* becomes set only by a requestSync call for that session.
C18_WriteClearsSyncRequest ==
    [][\A s \in AllIds :
          /\ op'.name = "POST /api/state" /\ op'.id = s =>
                /\ Has(stateStore', s)
                /\ ~stateStore'[s].syncRequested
                /\ ~StateResponse(stateStore', s).syncRequested
          /\ SyncFlag(stateStore', s) /\ ~SyncFlag(stateStore, s) =>
                op'.name = "requestSync" /\ op'.id = s]_vars

\* a write was accepted while a sync request was pending, and cleared it
C18_Witness ==
    /\ op.name = "POST /api/state" /\ op.flag
    /\ ~stateStore[op.id].syncRequested /\ op.version > 1

\* C19: a write that supplies no preview image leaves the session's cached
\* preview as it was, and every write leaves the pending export format and
\* the stored export result as they were (all of them empty if the write
\* created the session).
C19_WritePreservesPreviewAndExport ==
    [][op'.name = "POST /api/state" =>
          LET s == op'.id
              old == stateStore[s]
              new == stateStore'[s]
          IN IF Has(stateStore, s)
             THEN /\ op'.svg = NoSvg => new.svg = old.svg
                  /\ new.exportFormat = old.exportFormat
                  /\ new.exportData = old.exportData
             ELSE /\ op'.svg = NoSvg => new.svg = NoSvg
                  /\ new.exportFormat = "none"
                  /\ new.exportData = "none"]_vars

\* a write without a preview to a session that holds a cached preview, a
\* pending export format and an export result
C19_Witness ==
    /\ op.name = "POST /api/state" /\ op.svg = NoSvg /\ op.version > 1
    /\ stateStore[op.id].svg # NoSvg
    /\ stateStore[op.id].exportFormat # "none"
    /\ stateStore[op.id].exportData # "none"

\* C20: requestSync returns true and sets the sync-request flag of the session
\* (and nothing else) when the session exists; for an absent session it
\* returns false and leaves the store as it was.
C20_RequestSyncOnlyIfPresent ==
    [][op'.name = "requestSync" =>
          IF Has(stateStore, op'.id)
          THEN /\ op'.ok
               /\ stateStore' = [stateStore EXCEPT ![op'.id].syncRequested = TRUE]
          ELSE /\ ~op'.ok
               /\ stateStore' = stateStore]_vars

\* requestSync was refused for an absent session of recognized shape, which is
\* still absent, while another session exists
C20_Witness ==
    /\ op.name = "requestSync" /\ ~op.ok
    /\ isLikelyMcpSessionId(op.id) /\ ~Has(stateStore, op.id)
    /\ \E s \in Sessions : Has(stateStore, s)

\* C21: one run of the sweep deletes exactly the sessions whose last update
\* is more than SESSION_TTL old and empties the history log of each of them;
\* every other session keeps its state and its history as they were.
C21_SweepDeletesExactlyExpired ==
    [][cleanupExpiredSessions =>
         \A s \in Sessions :
            IF stateStore[s].present /\ now - stateStore[s].lastUpdated > SESSION_TTL
            THEN ~stateStore'[s].present /\ history'[s] = <<>>
            ELSE stateStore'[s] = stateStore[s] /\ history'[s] = history[s]]_vars

\* a sweep has removed one session, whose log is empty, while the other one,
\* last written exactly SESSION_TTL ago, still has its state and its history
C21_Witness ==
    \E s, t \in Sessions :
       /\ swept[s] /\ ~stateStore[s].present /\ history[s] = <<>>
       /\ ~swept[t] /\ stateStore[t].present /\ history[t] # <<>>
       /\ now - stateStore[t].lastUpdated = SESSION_TTL

\* C22: POST /api/restore with an index i that has an entry leaves every
\* entry of the log where it was, appends one entry equal to entry i (same
\* document, same preview), makes entry i's document the live document and
\* raises the session's version by exactly 1.
C22_RestoreAppendsSnapshot ==
    [][(op'.name = "POST /api/restore"
          /\ op'.index \in 0..(Len(history[op'.id]) - 1)) =>
         LET id == op'.id
             old == history[id]
             new == history'[id]
             entry == old[op'.index + 1]
         IN /\ op'.ok
            /\ Len(new) = Len(old) + 1
            /\ \A k \in 1..Len(old) : new[k] = old[k]
            /\ new[Len(new)] = entry
            /\ stateStore'[id].present
            /\ stateStore'[id].xml = entry.xml
            /\ stateStore'[id].version =
                  (IF stateStore[id].present THEN stateStore[id].version ELSE 0) + 1
            /\ op'.version = stateStore'[id].version]_vars

\* entry 0 of a log of two different entries has just been restored: both are
\* still there, a third equal to entry 0 follows them, and the live document
\* is entry 0's while the live preview is not the entry's
C22_Witness ==
    /\ op.name = "POST /api/restore" /\ op.ok /\ op.index = 0
    /\ Len(history[op.id]) = 3
    /\ history[op.id][3] = history[op.id][1]
    /\ history[op.id][2] # history[op.id][1]
    /\ stateStore[op.id].xml = history[op.id][1].xml
    /\ stateStore[op.id].version > 1
    /\ stateStore[op.id].svg # history[op.id][1].svg

\* C23: POST /api/restore with an index that has no entry, in a log with
\* entries or in an empty one, is answered with the not-found error and
\* changes neither the store nor the history log.
C23_RestoreMissingEntryNotFound ==
    [][(op'.name = "POST /api/restore"
          /\ op'.index \notin 0..(Len(history[op'.id]) - 1)) =>
         /\ ~op'.ok
         /\ stateStore' = stateStore
         /\ history' = history]_vars

\* the index one past the newest entry of an existing session was asked for
\* and refused
C23_Witness ==
    /\ op.name = "POST /api/restore" /\ ~op.ok
    /\ stateStore[op.id].present
    /\ history[op.id] # <<>>
    /\ op.index = Len(history[op.id])

\* C24: formatValidationFeedback returns the empty string exactly when the
\* result is valid and has no issues, whatever its suggestions.
C24_EmptyIffValidWithoutIssues ==
    last.tool = "formatValidationFeedback" =>
        (last.quoted = <<"">> <=> (last.result.valid /\ last.result.issues = <<>>))

\* an invalid result without issues was formatted to a text of several lines
C24_Witness ==
    /\ last.tool = "formatValidationFeedback"
    /\ ~last.result.valid /\ last.result.issues = <<>>
    /\ Len(last.quoted) > 1

\* the lines of a text that are not one of the fixed lines, in order
FixedLines ==
    {"DIAGRAM VISUAL VALIDATION FAILED", "", "Critical Issues (must fix):",
     "Warnings:", "Suggestions to fix:",
     "Please regenerate the diagram with corrected layout to fix these visual issues."}
IsItemLine(line) == line \notin FixedLines
Orderings(n) == {f \in [1..n -> 1..n] : \A i, j \in 1..n : f[i] = f[j] => i = j}

\* C25: in a non-empty feedback text the item lines are, first, one line
\* "  - [type] description" for each issue, no critical issue after a warning,
\* then one line for each suggestion; nothing else is an item, and the last
\* line is the instruction to regenerate the diagram.
C25_FeedbackLayout ==
    last.tool = "formatValidationFeedback" /\ last.quoted # <<"">> =>
        LET out == last.quoted
            issues == last.result.issues
            suggestions == last.result.suggestions
            n == Len(issues)
            items == SelectSeq(out, IsItemLine)
        IN /\ Len(items) = n + Len(suggestions)
           /\ \E f \in Orderings(n) :
                 /\ \A k \in 1..n :
                       items[k] = "  - [" \o issues[f[k]].type \o "] "
                                     \o issues[f[k]].description
                 /\ \A k, l \in 1..n :
                       k < l => ~(issues[f[k]].severity = "warning"
                                    /\ issues[f[l]].severity = "critical")
           /\ \A j \in 1..Len(suggestions) :
                 items[n + j] = "  - " \o suggestions[j]
           /\ out[Len(out)] =
                 "Please regenerate the diagram with corrected layout to fix these visual issues."

\* a warning listed before a critical issue, with a suggestion that reads
\* like the critical issue's line: the critical issue comes first
C25_Witness ==
    /\ last.tool = "formatValidationFeedback"
    /\ Len(last.result.issues) = 2
    /\ last.result.issues[1].severity = "warning"
    /\ last.result.issues[2] =
          [type |-> "overlap", severity |-> "critical", description |-> "boxes overlap"]
    /\ last.result.suggestions = <<"[overlap] boxes overlap">>
    /\ last.quoted[4] = "  - [overlap] boxes overlap"

\* C26: a display_diagram call with complete XML that the chart loaded, made
\* while validation is not configured in the handler or the server behind
\* the endpoint has validation disabled or no validation model, returns the
\* success output; it reports no `failed` state and quotes no feedback, and
\* when the endpoint was asked it answered valid with no issues.
C26_NoBackendMeansSuccess ==
    last.tool = "display_diagram" /\ last.displayed /\ last.kind # "loadError"
        /\ (~validationEnabled \/ last.backend \in {"disabled", "noModel"}) =>
            /\ last.state = "output-available"
            /\ last.kind = "success"
            /\ \A k \in 1..Len(last.reported) : last.reported[k] # "failed"
            /\ last.quoted = <<>>
            /\ (\E k \in 1..Len(last.reported) : last.reported[k] = "validating") =>
                  /\ last.validated
                  /\ last.result.valid
                  /\ last.result.issues = <<>>

\* the handler is configured, the server has no validation model: the capture
\* was sent, the endpoint answered, and `success` was reported
C26_Witness ==
    /\ last.tool = "display_diagram" /\ validationEnabled
    /\ last.backend = "noModel"
    /\ last.reported = <<"capturing", "validating", "success">>
    /\ last.state = "output-available"

Outcomes == {"success", "success_with_warnings", "failed", "skipped", "error"}

\* C27 (as stated): of the states one display_diagram call reports,
\* `capturing` is the first, `validating` directly follows `capturing`, an
\* outcome state directly follows `validating`, and an outcome is the last
\* state reported.
C27_OutcomeOnlyAfterValidating ==
    last.tool = "display_diagram" =>
        \A k \in 1..Len(last.reported) :
           LET st == last.reported[k] IN
           /\ k = 1 => st = "capturing"
           /\ st = "capturing" => k = 1
           /\ st = "validating" => k > 1 /\ last.reported[k - 1] = "capturing"
           /\ st \in Outcomes =>
                 /\ k > 1 /\ last.reported[k - 1] = "validating"
                 /\ k = Len(last.reported)

\* C27 (amended): `capturing` is the first state reported, `validating`
\* directly follows `capturing`, success, success_with_warnings and failed
\* directly follow `validating`, skipped and error directly follow
\* `validating` or `capturing`, and an outcome is the last state reported.
C27_ReportedPath ==
    last.tool = "display_diagram" =>
        \A k \in 1..Len(last.reported) :
           LET st == last.reported[k] IN
           /\ k = 1 => st = "capturing"
           /\ st = "capturing" => k = 1
           /\ st = "validating" => k > 1 /\ last.reported[k - 1] = "capturing"
           /\ st \in {"success", "success_with_warnings", "failed"} =>
                 k > 1 /\ last.reported[k - 1] = "validating"
           /\ st \in {"skipped", "error"} =>
                 k > 1 /\ last.reported[k - 1] \in {"validating", "capturing"}
           /\ st \in Outcomes => k = Len(last.reported)
           /\ st \in Outcomes \cup {"capturing", "validating"}

\* the capture returned nothing: `skipped` was reported right after
\* `capturing`
C27_Witness ==
    /\ last.tool = "display_diagram"
    /\ last.reported = <<"capturing", "skipped">>

\* C28: a display_diagram call reports `failed` or returns feedback only for
\* a result with a critical issue; a result without one is accepted as
\* success or success_with_warnings and the retry count of the call stays
\* as it was.
C28_FailedOnlyOnCritical ==
    [][last'.tool = "display_diagram" /\ last'.validated =>
         LET critical == \E k \in 1..Len(last'.result.issues) :
                            last'.result.issues[k].severity = "critical"
         IN /\ (last'.valState = "failed" \/ last'.kind = "validationFeedback")
                  => critical
            /\ ~critical =>
                  /\ last'.valState \in {"success", "success_with_warnings"}
                  /\ validationRetryCount'[last'.toolCallId] <=
                        validationRetryCount[last'.toolCallId]]_vars

\* C29: when a call that returned validation feedback is followed by a
\* display_diagram or edit_diagram call that put a document on the chart and
\* returned success, that call reported `capturing` first.
C29_NextCallRevalidated ==
    [][last.kind = "validationFeedback"
          /\ last'.tool \in {"display_diagram", "edit_diagram"}
          /\ last'.displayed /\ last'.state = "output-available" =>
             last'.reported # <<>> /\ last'.reported[1] = "capturing"]_vars

\* a text of digits only, and the number it writes
IsInteger(text) ==
    /\ text # <<>>
    /\ \A k \in 1..Len(text) : text[k] \in {"0", "1", "2"}
RECURSIVE DecimalValue(_)
DecimalValue(text) ==
    IF text = <<>> THEN 0
    ELSE 10 * DecimalValue(SubSeq(text, 1, Len(text) - 1))
         + (IF text[Len(text)] = "0" THEN 0 ELSE IF text[Len(text)] = "1" THEN 1 ELSE 2)
HasLetter(text) == \E k \in 1..Len(text) : text[k] = "a"

\* C30 (as stated): the timeout is at least 1000; it is the configured value
\* when that is an integer of at least 1000; it is 10000 when the variable is
\* unset or its value is not a number.
C30_NotANumberGivesDefault ==
    last.tool = "POST /api/validate-diagram" =>
        /\ last.timeout >= 1000
        /\ (last.env.set /\ IsInteger(last.env.text)
               /\ DecimalValue(last.env.text) >= 1000)
              => last.timeout = DecimalValue(last.env.text)
        /\ (~last.env.set \/ HasLetter(last.env.text)) => last.timeout = 10000

\* the value without its leading spaces and without one leading minus sign
\* (for a value whose spaces all come first)
Unsigned(text) ==
    LET t == SelectSeq(text, LAMBDA c : c # " ")
    IN IF t # <<>> /\ Head(t) = "-" THEN Tail(t) ELSE t
LeadsWithSpacesOnly(text) ==
    \A k \in 1..Len(text) :
       text[k] = " " => \A j \in 1..k : text[j] = " "

\* C30 (amended): the timeout is at least 1000; it is the configured value
\* when that is an integer of at least 1000; it is 10000 when the variable is
\* unset or empty, or when no digit follows its leading spaces and sign.
C30_TimeoutClamped ==
    last.tool = "POST /api/validate-diagram" =>
        /\ last.timeout >= 1000
        /\ (last.env.set /\ IsInteger(last.env.text)
               /\ DecimalValue(last.env.text) >= 1000)
              => last.timeout = DecimalValue(last.env.text)
        /\ (~last.env.set \/ last.env.text = <<>>) => last.timeout = 10000
        /\ (last.env.set /\ LeadsWithSpacesOnly(last.env.text)
               /\ (Unsigned(last.env.text) = <<>>
                      \/ Head(Unsigned(last.env.text)) \notin {"0", "1", "2"}))
              => last.timeout = 10000

\* "200a" was configured: the digits before the letter were read, and the
\* timeout is the minimum
C30_Witness ==
    /\ last.tool = "POST /api/validate-diagram"
    /\ last.env = [set |-> TRUE, text |-> <<"2", "0", "0", "a">>]
    /\ last.timeout = 1000

\* C31: loadFlattenedServerModels returns one entry per configured (provider,
\* model) pair in configuration order, marks as default exactly the first
\* model of a provider configured with default: true, so that one model is
\* the default, and returns an empty list when no configuration can be
\* loaded.
Offset(providers, k) ==
    LET RECURSIVE Sum(_)
        Sum(n) == IF n = 0 THEN 0 ELSE Len(providers[n].models) + Sum(n - 1)
    IN  Sum(k - 1)

C31_FlattenedWithOneDefault ==
    last.tool = "loadFlattenedServerModels" =>
        LET c == last.config
            found == c.envConfig = "valid" \/ (c.envConfig = "unset" /\ c.file = "valid")
            ps == c.providers
            ms == last.models
        IN  IF ~found THEN ms = <<>>
            ELSE /\ Len(ms) = Offset(ps, Len(ps) + 1)
                 /\ \A k \in 1..Len(ps) : \A i \in 1..Len(ps[k].models) :
                       LET m == ms[Offset(ps, k) + i]
                       IN  /\ m.provider = ps[k].provider
                           /\ m.modelId = ps[k].models[i]
                           /\ m.isDefault <=> (ps[k].default /\ i = 1)
                 /\ Cardinality({k \in 1..Len(ps) :
                                    ps[k].default /\ ps[k].models # <<>>}) = 1
                       => Cardinality({j \in 1..Len(ms) : ms[j].isDefault}) = 1

\* C32: delivering an export result to an existing session stores the
\* payload and clears the pending export format, leaving the document, the
\* version, the last-updated time, the preview and the sync flag as they
\* were; delivered to an absent session it is acknowledged with success and
\* creates no session.
C32_ExportDeliveryFrame ==
    [][op'.name = "POST /api/state exportData" =>
          LET s == op'.id
              old == stateStore[s]
              new == stateStore'[s]
          IN /\ op'.ok
             /\ \A t \in AllIds \ {s} : stateStore'[t] = stateStore[t]
             /\ IF Has(stateStore, s)
                THEN /\ new.present
                     /\ new.exportData = op'.data
                     /\ new.exportFormat = "none"
                     /\ new.xml = old.xml
                     /\ new.version = old.version
                     /\ new.lastUpdated = old.lastUpdated
                     /\ new.svg = old.svg
                     /\ new.syncRequested = old.syncRequested
                ELSE ~Has(stateStore', s)]_vars

\* a delivery to a session that was written later than its creation, holds a
\* preview, has a sync request and an export pending and already stores
\* another export result
C32_Witness ==
    /\ op.name = "POST /api/state exportData"
    /\ Has(stateStore, op.id)
    /\ stateStore[op.id].exportData = op.data
    /\ stateStore[op.id].exportFormat = "none"
    /\ stateStore[op.id].syncRequested
    /\ stateStore[op.id].svg # NoSvg
    /\ stateStore[op.id].version > 1
    /\ op.data = "svgText"

\* C33: if requestSync succeeded for a session whose page keeps polling and
\* whose renderer answers export requests (it had announced itself to the
\* page when the request was made), then eventually the page asks the
\* renderer for its XML, pushes the reply and the sync flag is cleared.
C33_SyncEventuallySatisfied ==
    (host.waiting /\ host.ready /\ stateStore[sessionId].syncRequested)
        ~> ~stateStore[sessionId].syncRequested

\* C34: each save/autosave event whose XML differs from the page's last
\* known XML leads to exactly one write of that XML to the store, with the
\* SVG preview when made on an export reply and without it when made by the
\* 2-second fallback, unless a newer save supersedes it; none is written
\* twice.
SavesWritten == {i \in 1..Len(used.saves) : used.saves[i].fate \in {"svg", "plain"}}

SavesAccounted ==
    /\ \A i \in 1..Len(used.saves) : used.saves[i].fate # "twice"
    /\ posts[sessionId] = Cardinality(SavesWritten)
    /\ \A i \in 1..Len(used.saves) :
          used.saves[i].fate = "superseded" => i < Len(used.saves)
    /\ page.pendingSvgExport # NoDoc =>
          /\ used.saves # <<>>
          /\ used.saves[Len(used.saves)] =
                [xml |-> page.pendingSvgExport, fate |-> "pending"]
    /\ (inbox = <<>> /\ timers = {}) =>
          \A i \in 1..Len(used.saves) : used.saves[i].fate # "pending"

C35_NothingSentBeforeInit ==
    polled # NoPoll /\ ~page.isReady => polled.sent = <<>>

\* ---------------------------------------------------------------------------
\* The validation hook (use-validate-diagram.ts)
\* ---------------------------------------------------------------------------

PendingPromises == {id \in 1..MaxValidations : hook.promises[id] = "pending"}

\* C36: at most one validation is pending at any time: validate rejects an
\* earlier pending promise as superseded before submitting, and after any
\* completion or stream-error callback nothing is pending.
C36_OnePendingValidation ==
    /\ Cardinality(PendingPromises) <= 1
    /\ PendingPromises \subseteq {hook.pendingValidationRef}
    /\ hook.event \in {"onFinish", "onError"} => hook.pendingValidationRef = 0

\* C37: once the completion callback of a promise's request has fired, with a
\* result, an error or neither, the promise is resolved or rejected.
C37_PromiseSettledOnCompletion ==
    \A id \in 1..MaxValidations :
        hook.promises[id] # "unused" /\ id \notin hook.requests
            => hook.promises[id] \in {"resolved", "rejected", "superseded"}

\* ---------------------------------------------------------------------------
\* Tool outputs
\* ---------------------------------------------------------------------------

\* C38: every display_diagram, edit_diagram or append_diagram call the handler
\* finishes has added exactly one tool output, a success or an error, on
\* every path.
C38_ExactlyOneOutput ==
    last.tool \in {"display_diagram", "edit_diagram", "append_diagram"} =>
        /\ Len(last.outputs) = 1
        /\ last.outputs = <<last.state>>
        /\ last.state \in {"output-available", "output-error"}

C38_Witness ==
    /\ last.tool = "display_diagram"
    /\ last.kind = "acceptedMaxRetries"
    /\ last.outputs = <<"output-available">>

\* ---------------------------------------------------------------------------
\* The page's version
\* ---------------------------------------------------------------------------

\* C39: the version the page records as last observed never decreases, under
\* any ordering of poll responses and of the responses to its own pushes.
C39_CurrentVersionMonotonic ==
    [][page'.currentVersion >= page.currentVersion]_vars

\* ---------------------------------------------------------------------------
\* The validation retry counter
\* ---------------------------------------------------------------------------

\* C40: for every tool-call id the retry counter stays within
\* 0..MAX_VALIDATION_RETRIES, it is removed when the call ends in success,
\* success_with_warnings or skipped after exhausting retries, and the attempt
\* reported with the validating and failed states never exceeds the maximum.
C40_RetryCounterBounded ==
    /\ \A id \in ToolCallIds : validationRetryCount[id] \in 0..MAX_VALIDATION_RETRIES
    /\ (\/ last.valState \in {"success", "success_with_warnings"}
        \/ last.valState = "skipped" /\ last.kind = "acceptedMaxRetries")
          => validationRetryCount[last.toolCallId] = 0
    /\ last.valState = "failed" => last.attempt \in 1..MAX_VALIDATION_RETRIES
    /\ last.validating <= MAX_VALIDATION_RETRIES
====
